---------------------------- MODULE Spec2Model ----------------------------
(***************************************************************************)
(* Batch document pipeline (AutocadWorker.run) and the retry executor      *)
(* (COMErrorHandler.execute_with_retry) of autocad-suportes-detalhamento.  *)
(*                                                                         *)
(* Spec       : one run of AutocadWorker on an input table, against an     *)
(*              automation server that may reject or fail any call, with   *)
(*              cancel_processing arriving at any time.                    *)
(* SpecRetry  : a COMErrorHandler instance executing operations whose      *)
(*              attempts succeed or fault.                                 *)
(***************************************************************************)
EXTENDS Integers, Sequences, FiniteSets, TLC

(***************************************************************************)
(* Bounds of the model.                                                    *)
(***************************************************************************)
MaxRows == 3        \* rows of the input table
MaxFaults == 2      \* server calls of one run that meet a faulty answer
MaxExec == 2        \* execute_with_retry calls on one handler instance
MaxAttempts == 3    \* largest max_retries a caller passes
MaxGen == 2         \* server processes that exist in turn in one behaviour
MaxDocs == 1        \* documents open in the server at one time
MaxTimeout == 1     \* largest timeout_seg passed to conectar, in seconds
MaxEntities == 2    \* entities in the model space of the drawing
MaxCalls == 1        \* calls of the connector's and repository's data methods in one behaviour
MaxFiles == 2        \* .dwg files in the folder DXFConversionWorker converts
MaxRequests == 3     \* batch edits asked of the window
MaxSelected == 2     \* supports selected for one batch edit
MaxNamed == 3        \* rows whose output file names are computed
MaxNumber == 2       \* the numbers a filter and a property hold are 0..MaxNumber

(***************************************************************************)
(* Generic helpers.                                                        *)
(***************************************************************************)
RECURSIVE Join(_, _)
\* sep.join(parts)
Join(parts, sep) ==
    IF parts = <<>> THEN ""
    ELSE IF Len(parts) = 1 THEN parts[1]
    ELSE parts[1] \o sep \o Join(Tail(parts), sep)

Range(s) == {s[i] : i \in DOMAIN s}

(***************************************************************************)
(* The automation server's answers.  A call either succeeds ("S_OK") or    *)
(* raises pythoncom.com_error carrying one of the fault codes.             *)
(***************************************************************************)
RPC_E_CALL_REJECTED == "RPC_E_CALL_REJECTED"
RPC_E_SERVERCALL_RETRYLATER == "RPC_E_SERVERCALL_RETRYLATER"
E_FAIL == "E_FAIL"
Faults == {RPC_E_CALL_REJECTED, RPC_E_SERVERCALL_RETRYLATER, E_FAIL}
\* the answers met by the calls of a pipeline run: success, the busy
\* rejection and a terminal fault (the pipeline's handler, line 92, retries
\* RPC_E_CALL_REJECTED only: any other hresult acts as E_FAIL there)
RunOutcomes == {"S_OK", RPC_E_CALL_REJECTED, E_FAIL}
\* every answer of the server
ServerAnswers == {"S_OK"} \cup Faults


(***************************************************************************)
(* ProcessingConfig                                                        *)
(***************************************************************************)
REQUIRED_COLUMNS ==
    <<"POSICAO", "TipoSuporte", "Elevacao", "MEDIDA_H", "MEDIDA_L", "MEDIDA_M",
      "MEDIDA_H1", "MEDIDA_H2", "MEDIDA_L1", "MEDIDA_L2", "MEDIDA_B">>

\* the keys of attribute_mapping
AttributeMappingKeys ==
    {"POSICAO", "TIPOSUPORTE", "ELEVACAO", "H", "L", "M", "H1", "H2", "L1",
     "L2", "B", "DATA_ATUAL"}

(***************************************************************************)
(* Inputs of a run.                                                        *)
(***************************************************************************)
Posicoes == {"A", "B"}
\* the template keys, in the order groupby sorts them
SortedTipos == <<"X", "Y", "Z">>
Tipos == Range(SortedTipos)

Rows == [POSICAO : Posicoes, TipoSuporte : Tipos]
\* The run depends on the keys only through equality and, for the template
\* keys, their sort order: tables are taken up to renaming, the first row
\* having POSICAO "A" and the template keys in use being the first of
\* SortedTipos.
Canonical(t) ==
    /\ t # <<>> => t[1].POSICAO = "A"
    /\ \A k \in 2..Len(SortedTipos) :
          (\E i \in DOMAIN t : t[i].TipoSuporte = SortedTipos[k])
              => (\E i \in DOMAIN t : t[i].TipoSuporte = SortedTipos[k - 1])
Tables == {t \in UNION {[1..n -> Rows] : n \in 0..MaxRows} : Canonical(t)}

\* column headers of the spreadsheet: the required ones, some possibly
\* absent, with or without the legacy column Name
DroppableColumns == {"POSICAO", "TipoSuporte"}
ColumnSets ==
    {c \in {(Range(REQUIRED_COLUMNS) \ m) \cup n :
                m \in SUBSET DroppableColumns, n \in SUBSET {"Name"}} :
        ~({"Name", "TipoSuporte"} \subseteq c)}
\* a spreadsheet pandas cannot read, or one with the given headers
ExcelFiles ==
    {[readable |-> FALSE, columns |-> {}]}
        \cup {[readable |-> TRUE, columns |-> c] : c \in ColumnSets}

\* str.upper() on the attribute tags that occur in the templates
Upper(tag) ==
    CASE tag = "posicao" -> "POSICAO"
      [] tag = "elevacao" -> "ELEVACAO"
      [] OTHER -> tag

\* PaperSpace contents of a template: entities in index order; block = the
\* entity is an AcDbBlockReference with HasAttributes; tags = TagString of
\* its attributes
Entity(block, tags) == [block |-> block, tags |-> tags]
TemplateContents ==
    { <<Entity(FALSE, <<>>)>>,
      <<Entity(TRUE, <<"REVISAO">>)>>,
      <<Entity(FALSE, <<>>), Entity(TRUE, <<"posicao", "ELEVACAO">>)>> }


(***************************************************************************)
(* State.                                                                  *)
(***************************************************************************)
VARIABLES
    \* ---- inputs of AutocadWorker ----
    excel,              \* the spreadsheet at excel_path: readable, column headers
    df,                 \* its rows, in input order
    \* ---- AutocadWorker ----
    pc,                 \* position of run
    is_cancelled,       \* self._is_cancelled
    stats,              \* ProcessingStats
    position_counter,   \* POSICAO -> times seen (0: not in the dict)
    processed_count,
    gi,                 \* index of the current group in Grouped
    idx,                \* index of the current row in its group (from 0)
    template_doc,       \* document handle, 0 for None
    doc,                \* document handle, 0 for None
    output_filename,
    exc,                \* the exception being handled ("" for none)
    \* ---- signals emitted by the worker ----
    finished,           \* sequence of the dicts emitted through finished
    cancelled,          \* number of cancelled emissions
    error,              \* sequence of the texts emitted through error
    current_file,       \* per row started: its index in df, POSICAO, template
                        \* key and output file name (current_file and log)
    \* ---- the automation server and the disk ----
    open_docs,          \* handles of the documents open in the server
    next_handle,        \* handle the next Documents.Open returns
    content,            \* PaperSpace of the template file of the open group
    written,            \* output files written by SaveAs, in order
    server_calls,       \* the kinds of call made to the server so far
    faults,             \* calls that met a faulty answer so far
    \* ---- history of the run ----
    group_status,       \* template key -> "pending", "missing", "open", "closed", "failed"
    group_calls,        \* template key -> kinds of server call made for its rows
    fate,               \* row -> the outcome categories it was counted in
    close_faulted,      \* a Close call on an open document has faulted
    filled,             \* the row filled last, until the run moves on from it:
                        \* whether fill_attributes raised, and the attributes
                        \* of its document afterwards
    \* ---- COMErrorHandler (utils) ----
    h_pc,               \* position of execute_with_retry
    h_error_log,        \* self._error_log
    h_operation_name,   \* operation_name of the running call
    h_retries,          \* retries of the running call
    h_attempt,          \* attempt of the running call
    h_outcomes,         \* what func did at each invocation of the running call
    h_slept,            \* delays slept by the running call, in ms
    h_result,           \* what the last call returned or raised
    h_log_before,       \* length of _error_log when the last call started
    h_execs,            \* calls of execute_with_retry made on this handler
    \* ---- COMErrorHandler.execute_with_retry of the pipeline, called alone ----
    s_outs,             \* the answers the operation gives, in order
    s_max_retries,      \* max_retries of the last call
    s_result,           \* what the last call did: ok, exc, calls, slept
    s_calls,            \* calls made so far
    \* ---- AutocadCOMConnector (utils/autocad_connector.py) ----
    c_pc,               \* position of the connector's method under way
    c_acad,             \* self._acad: the server process it is bound to, 0 for None
    c_acad_doc,         \* self._acad_doc, likewise
    c_acad_model,       \* self._acad_model, likewise
    c_is_initialized,   \* self._is_initialized
    c_args,             \* arguments of the method under way or last called
    c_elapsed,          \* _wait_for_document: half seconds gone by since inicio
    c_checked,          \* _wait_for_document: c_elapsed at the last test of line 136, -1 before it
    c_ret,              \* what the last method returned
    c_trace,            \* calls made to the server by the method under way or last called
    c_held,             \* the connector was connected when the last method was called
    c_attempt,          \* attempt number of the execute_with_retry under way
    g_error_log,        \* _error_log of the global COMErrorHandler
    u_calls,            \* calls of data methods made so far by the connector's user
    c_skipped,          \* faults the method under way caught with "except Exception: continue"
    \* ---- the automation server the connector talks to ----
    srv_running,        \* a server process is running
    srv_gen,            \* which one: processes are numbered as they start
    srv_docs,           \* documents open in it
    drawing,            \* entities of the model space of its active document
    \* ---- SuporteRepository (core/repository.py) ----
    r_cache,            \* self._cache
    r_cache_dirty,      \* self._cache_dirty
    r_pc,               \* position of the repository's method under way
    r_blocos,           \* listar_todos: blocos not yet turned into SuporteData
    r_before,           \* len(self._cache) when the last repository method was called
    \* ---- DXFConversionWorker (dxf-detalhamento-suportes.py) ----
    cv_pc,              \* position of run
    cv_is_cancelled,    \* self._is_cancelled
    cv_disk,            \* the .dwg files of source_folder, each with its .dxf
    cv_docs,            \* who opened each document open in the server, the active one last
    cv_i,               \* index of the current file in dwg_files (from 1)
    cv_retry,           \* retry of the current file
    cv_stats,           \* stats
    cv_last_error,      \* last_error of the current file
    cv_finished,        \* the dicts emitted through finished
    cv_cancelled,       \* number of cancelled emissions
    cv_error,           \* the texts emitted through error
    cv_attempts,        \* file -> attempts made on it so far
    cv_pauses,          \* file -> one-second pauses made for it so far
    cv_exported,        \* file -> sizes the exports of this run wrote for it
    cv_closed,          \* who had opened each document the worker closed
    \* ---- MainWindow (gui/main_window.py) and its BatchEditWorker threads ----
    mw_batch_worker,    \* self._batch_worker: a worker's number, 0 for None
    mw_workers,         \* the BatchEditWorker objects made, in order
    mw_warnings,        \* warnings "Edicao em andamento" shown
    mw_requests,        \* calls of _executar_edicao_lote made
    mw_closed,          \* closeEvent has been handled
    mw_load_worker,     \* self._load_worker: the LoadSuportesWorker made last
    mw_gui,             \* what the GUI thread is inside of ("": the event loop)
    \* ---- FiltroBusca (core/models.py) applied to a SuporteData ----
    fb_filtro,          \* the filter: campo, operador, valor, valor_secundario
    fb_suporte,         \* the support: its tag and its property Altura
    fb_result,          \* what verificar returned, once called
    \* ---- the output file names of one run ----
    nm_posicoes,        \* column POSICAO of the rows, in the order they are processed
    nm_counter,         \* position_counter
    nm_names            \* output_filename of the rows processed so far

workerVars ==
    <<excel, df, pc, is_cancelled, stats, position_counter, processed_count, gi,
      idx, template_doc, doc, output_filename, exc, finished, cancelled, error,
      current_file, open_docs, next_handle, content, written, server_calls,
      faults, group_status, group_calls, fate, close_faulted, filled>>
handlerVars ==
    <<h_pc, h_error_log, h_operation_name, h_retries, h_attempt, h_outcomes,
      h_slept, h_result, h_log_before, h_execs>>
staticVars == <<s_outs, s_max_retries, s_result, s_calls>>
\* the variables of the components other than the worker and the handler
connVars ==
    <<c_pc, c_acad, c_acad_doc, c_acad_model, c_is_initialized, c_args,
      c_elapsed, c_checked, c_ret, c_trace, c_held>>
serverVars == <<srv_running, srv_gen, srv_docs, drawing>>
retryVars == <<c_attempt, g_error_log, u_calls, c_skipped>>
repoVars == <<r_cache, r_cache_dirty, r_pc, r_blocos, r_before>>
convVars ==
    <<cv_pc, cv_is_cancelled, cv_disk, cv_docs, cv_i, cv_retry, cv_stats,
      cv_last_error, cv_finished, cv_cancelled, cv_error, cv_attempts,
      cv_pauses, cv_exported, cv_closed>>
\* the variables of the sibling pipelines and of the window
windowVars ==
    <<mw_batch_worker, mw_workers, mw_warnings, mw_requests, mw_closed,
      mw_load_worker, mw_gui>>
filterVars == <<fb_filtro, fb_suporte, fb_result>>
namesVars == <<nm_posicoes, nm_counter, nm_names>>
pureVars == <<filterVars, namesVars>>
toolVars == <<convVars, windowVars, pureVars>>
otherVars == <<staticVars, connVars, retryVars, serverVars, repoVars, toolVars>>
vars == <<workerVars, handlerVars, otherVars>>

(***************************************************************************)
(* ProcessingStats                                                         *)
(***************************************************************************)
NewStats ==
    [total |-> 0, success |-> 0, template_not_found |-> 0, errors |-> 0,
     no_attributes |-> 0, duplicates |-> 0, error_details |-> <<>>,
     not_found_details |-> <<>>, no_attributes_details |-> <<>>,
     duplicate_details |-> <<>>]

\* no row has been filled, or the run has moved on from the last one
NoFill == [row |-> 0, raised |-> FALSE, attribs |-> <<>>]

\* the documents already open in the server when the run starts
UserDocs == {1}

(***************************************************************************)
(* df.groupby('TipoSuporte'): the keys present, sorted; per key the rows   *)
(* in input order (as indices into df).                                    *)
(***************************************************************************)
Grouped == SelectSeq(SortedTipos, LAMBDA t : \E i \in DOMAIN df : df[i].TipoSuporte = t)

RECURSIVE IndicesFrom(_, _)
IndicesFrom(i, t) ==
    IF i > Len(df) THEN <<>>
    ELSE (IF df[i].TipoSuporte = t THEN <<i>> ELSE <<>>) \o IndicesFrom(i + 1, t)
\* group_df, as the indices of its rows
GroupDf(t) == IndicesFrom(1, t)

tipo_suporte == Grouped[gi]
row == df[GroupDf(tipo_suporte)[idx + 1]]


(***************************************************************************)
(* COMErrorHandler.execute_with_retry of the pipeline (static, no log).    *)
(* outs[k] is the server's answer to the k-th invocation of func.          *)
(* Result: ok, the exception raised (exc), the invocations made (calls)    *)
(* and the delays slept, in ms.                                            *)
(***************************************************************************)
StaticBaseDelayMs == 500

RECURSIVE StaticRetryLoop(_, _, _, _)
StaticRetryLoop(outs, attempt, max_retries, slept) ==
    IF attempt >= max_retries
    THEN [ok |-> FALSE, exc |-> "falhou apos tentativas", calls |-> attempt,
          slept |-> slept]
    ELSE IF outs[attempt + 1] = "S_OK"
    THEN [ok |-> TRUE, exc |-> "", calls |-> attempt + 1, slept |-> slept]
    ELSE IF outs[attempt + 1] = RPC_E_CALL_REJECTED /\ attempt < max_retries - 1
    THEN StaticRetryLoop(outs, attempt + 1, max_retries,
                         Append(slept, StaticBaseDelayMs * (attempt + 1)))
    ELSE [ok |-> FALSE, exc |-> outs[attempt + 1], calls |-> attempt + 1,
          slept |-> slept]

StaticRetry(outs, max_retries) == StaticRetryLoop(outs, 0, max_retries, <<>>)

\* the answer sequences a retry-guarded call of the pipeline can meet
\* (answers after the last invocation do not happen: they are fixed to S_OK)
Answers(max_retries) ==
    {outs \in [1..max_retries -> RunOutcomes] :
        /\ \A k \in 1..max_retries :
              k > StaticRetry(outs, max_retries).calls => outs[k] = "S_OK"
        /\ faults >= MaxFaults => \A k \in 1..max_retries : outs[k] = "S_OK"}
\* 1 when the call met a faulty answer
Faulty(outs) == IF \E k \in DOMAIN outs : outs[k] # "S_OK" THEN 1 ELSE 0

(***************************************************************************)
(* The try blocks of run: the handler an exception raised at `site`        *)
(* reaches.  Lines 208-341 are the group's try, 124-359 the run's.         *)
(***************************************************************************)
\* a run whose try covers the group loop only: what is raised before the
\* loop escapes run
Catch_LoopOnly(site) ==
    IF site \in {"open_template", "reopen", "saveas", "close"}
    THEN "group_except"
    ELSE "escaped"

\* a run without the try of the group: every exception reaches the run's try
Catch_RunOnly(site) == "outer_except"

Catch(site) ==
    IF site \in {"open_template", "reopen", "saveas", "close"}
    THEN "group_except"
    ELSE "outer_except"

(***************************************************************************)
(* document.Close on handle h, the server answering o.  A handle that is   *)
(* not open (None, or already closed) raises without reaching a document.  *)
(***************************************************************************)
\* (used: the calls that met a faulty answer before this one)
CloseAnswers(docs, h, used) ==
    IF h \in docs /\ used < MaxFaults THEN RunOutcomes ELSE {"S_OK"}
CloseFaults(docs, h, o) == IF h \in docs /\ o # "S_OK" THEN 1 ELSE 0
CloseRaises(docs, h, o) == h \notin docs \/ o # "S_OK"
\* the call reaches the server unless the handle is None
CloseCalls(h) == IF h = 0 THEN {} ELSE {"Close"}
\* the server failed to close an open document
CloseFaulted(docs, h, o) == h \in docs /\ o # "S_OK"
\* a server whose Close answers but leaves the document open
DocsAfterClose_Kept(docs, h, o) == docs
\* the documents open after Close(False) on handle h answered o
DocsAfterClose(docs, h, o) == IF o = "S_OK" THEN docs \ {h} ELSE docs


(***************************************************************************)
(* AutocadWorker                                                           *)
(***************************************************************************)
\* the column headers after df.rename(columns={'Name': 'TipoSuporte'})
RenamedColumns ==
    IF "Name" \in excel.columns
    THEN (excel.columns \ {"Name"}) \cup {"TipoSuporte"}
    ELSE excel.columns
\* the spreadsheet as df holds it after the rename
Renamed == [excel EXCEPT !.columns = RenamedColumns]

\* a check that leaves out the first required column
missing_columns_ButFirst ==
    SelectSeq(Tail(REQUIRED_COLUMNS), LAMBDA col : col \notin RenamedColumns)

missing_columns == SelectSeq(REQUIRED_COLUMNS, LAMBDA col : col \notin RenamedColumns)

\* fate with category c added for the rows (indices into df) of rs
Counted(f, rs, c) == [i \in DOMAIN f |-> IF i \in Range(rs) THEN f[i] \cup {c} ELSE f[i]]

InitWorker ==
    /\ excel \in ExcelFiles
    /\ df \in Tables
    /\ pc = "start"
    /\ is_cancelled = FALSE
    /\ stats = NewStats
    /\ position_counter = [p \in Posicoes |-> 0]
    /\ processed_count = 0
    /\ gi = 1
    /\ idx = 0
    /\ template_doc = 0
    /\ doc = 0
    /\ output_filename = ""
    /\ exc = ""
    /\ finished = <<>>
    /\ cancelled = 0
    /\ error = <<>>
    /\ current_file = <<>>
    /\ open_docs = UserDocs
    /\ next_handle = 2
    /\ content = <<>>
    /\ written = <<>>
    /\ server_calls = {}
    /\ faults = 0
    /\ group_status = [t \in Tipos |-> "pending"]
    /\ group_calls = [t \in Tipos |-> {}]
    /\ fate = [i \in DOMAIN df |-> {}]
    /\ close_faulted = FALSE
    /\ filled = NoFill

\* cancel_processing, called from the GUI thread while the worker exists
cancel_processing ==
    /\ pc # "done"
    /\ ~is_cancelled
    /\ is_cancelled' = TRUE
    /\ UNCHANGED <<excel, df, pc, stats, position_counter, processed_count, gi,
                   idx, template_doc, doc, output_filename, exc, finished,
                   cancelled, error, current_file, open_docs, next_handle,
                   content, written, server_calls, faults, group_status,
                   group_calls, fate, close_faulted>>
    /\ UNCHANGED <<filled, handlerVars, otherVars>>

\* run, lines 124-148: read the spreadsheet, rename Name, check the columns
ReadExcel ==
    /\ pc = "start"
    /\ IF ~excel.readable
       THEN /\ exc' = "read_excel failed"
            /\ pc' = Catch("read_excel")
            /\ UNCHANGED <<excel, stats, error, finished>>
       ELSE /\ excel' = Renamed
            /\ IF missing_columns # <<>>
               THEN /\ error' = Append(error, "Colunas faltando no Excel: "
                                                  \o Join(missing_columns, ", "))
                    /\ stats' = [stats EXCEPT
                                    !.errors = @ + 1,
                                    !.error_details =
                                        Append(@, "Colunas faltando: "
                                                      \o Join(missing_columns, ", "))]
                    /\ finished' = Append(finished, stats')
                    /\ pc' = "done"
                    /\ exc' = exc
               ELSE /\ pc' = "connect"
                    /\ UNCHANGED <<stats, error, finished, exc>>
    /\ UNCHANGED <<df, is_cancelled, position_counter, processed_count, gi, idx,
                   template_doc, doc, output_filename, cancelled, current_file,
                   open_docs, next_handle, content, written, server_calls,
                   faults, group_status, group_calls, fate, close_faulted>>
    /\ UNCHANGED <<filled, handlerVars, otherVars>>

\* run, lines 150-181: Dispatch, acad.Visible = False, total, groupby
Connect ==
    /\ pc = "connect"
    /\ \E dispatch \in RunOutcomes, visible \in RunOutcomes :
          LET e == IF dispatch # "S_OK" THEN dispatch ELSE visible
          IN  /\ dispatch # "S_OK" => visible = "S_OK"
              /\ e # "S_OK" => faults < MaxFaults
              /\ faults' = faults + (IF e # "S_OK" THEN 1 ELSE 0)
              /\ server_calls' = server_calls \cup {"Dispatch"}
              /\ IF e # "S_OK"
                 THEN /\ error' = Append(error, "Erro ao conectar com AutoCAD: " \o e)
                      /\ stats' = [stats EXCEPT
                                      !.errors = @ + 1,
                                      !.error_details =
                                          Append(@, "Falha na conexao com AutoCAD: " \o e)]
                      /\ finished' = Append(finished, stats')
                      /\ pc' = "done"
                 ELSE /\ stats' = [stats EXCEPT !.total = Len(df)]
                      /\ pc' = "group_head"
                      /\ UNCHANGED <<error, finished>>
    /\ UNCHANGED <<excel, df, is_cancelled, position_counter, processed_count,
                   gi, idx, template_doc, doc, output_filename, exc, cancelled,
                   current_file, open_docs, next_handle, content, written,
                   group_status, group_calls, fate, close_faulted>>
    /\ UNCHANGED <<filled, handlerVars, otherVars>>

\* the texts appended to a detail list for the rows rs of the current group
NotFoundTexts(rs) ==
    [k \in 1..Len(rs) |-> df[rs[k]].POSICAO \o " (Tipo: " \o tipo_suporte \o ")"]
ErrorTexts(rs, e) == [k \in 1..Len(rs) |-> df[rs[k]].POSICAO \o ": " \o e]

\* a run that never looks at the flag
CancelRequested_Never == FALSE

\* lines 184 and 221: the cancellation checkpoint reads the flag
CancelRequested == is_cancelled

\* a lookup that counts the group once, whatever the number of its rows
TemplateNotFound_OncePerGroup ==
    LET group_df == GroupDf(tipo_suporte)
    IN  /\ stats' = [stats EXCEPT
                        !.template_not_found = @ + 1,
                        !.not_found_details = @ \o SubSeq(NotFoundTexts(group_df), 1, 1)]
        /\ fate' = Counted(fate, group_df, "template_not_found")
        /\ processed_count' = processed_count + Len(group_df)
        /\ group_status' = [group_status EXCEPT ![tipo_suporte] = "missing"]
        /\ gi' = gi + 1
        /\ pc' = "group_head"
        /\ UNCHANGED <<finished, cancelled, server_calls, group_calls>>

\* run, lines 192-199: the template file of the group does not exist
TemplateNotFound ==
    LET group_df == GroupDf(tipo_suporte)
    IN  /\ stats' = [stats EXCEPT
                        !.template_not_found = @ + Len(group_df),
                        !.not_found_details = @ \o NotFoundTexts(group_df)]
        /\ fate' = Counted(fate, group_df, "template_not_found")
        /\ processed_count' = processed_count + Len(group_df)
        /\ group_status' = [group_status EXCEPT ![tipo_suporte] = "missing"]
        /\ gi' = gi + 1
        /\ pc' = "group_head"
        /\ UNCHANGED <<finished, cancelled, server_calls, group_calls>>

\* run, lines 183-203 and 356-357: the loop head of the groups: end of the
\* run, cancellation checkpoint, template lookup
GroupHead ==
    /\ pc = "group_head"
    /\ IF gi > Len(Grouped)
       THEN /\ finished' = Append(finished, stats)
            /\ pc' = "done"
            /\ UNCHANGED <<stats, cancelled, processed_count, gi, group_status,
                           fate, server_calls, group_calls>>
       ELSE IF CancelRequested
       THEN /\ cancelled' = cancelled + 1
            /\ pc' = "done"
            /\ UNCHANGED <<stats, finished, processed_count, gi, group_status,
                           fate, server_calls, group_calls>>
       ELSE \E exists \in BOOLEAN :
              IF ~exists
              THEN TemplateNotFound
              ELSE /\ pc' = "open_template"
                   /\ group_status' = [group_status EXCEPT ![tipo_suporte] = "open"]
                   /\ UNCHANGED <<stats, finished, cancelled, processed_count,
                                  gi, fate, server_calls, group_calls>>
    /\ UNCHANGED <<excel, df, is_cancelled, position_counter, idx, template_doc,
                   doc, output_filename, exc, error, current_file, open_docs,
                   next_handle, content, written, faults, close_faulted>>
    /\ UNCHANGED <<filled, handlerVars, otherVars>>

\* run, lines 205-216: open the template of the group
OpenTemplate ==
    /\ pc = "open_template"
    /\ \E outs \in Answers(2), returned_none \in BOOLEAN :
          LET r == StaticRetry(outs, 2)
              opened == r.ok /\ ~returned_none
          IN  /\ returned_none => (r.ok /\ Faulty(outs) = 0 /\ faults < MaxFaults)
              /\ faults' = faults + Faulty(outs) + (IF returned_none THEN 1 ELSE 0)
              /\ server_calls' = server_calls \cup {"Open"}
              /\ group_calls' = [group_calls EXCEPT ![tipo_suporte] = @ \cup {"Open"}]
              /\ \E c \in IF opened THEN TemplateContents ELSE {content} :
                    content' = c
              /\ IF opened
                 THEN /\ template_doc' = next_handle
                      /\ open_docs' = open_docs \cup {next_handle}
                      /\ next_handle' = next_handle + 1
                      /\ pc' = "row_head"
                      /\ exc' = exc
                 ELSE /\ template_doc' = 0
                      /\ exc' = IF r.ok THEN "Falha ao abrir template" ELSE r.exc
                      /\ pc' = Catch("open_template")
                      /\ UNCHANGED <<open_docs, next_handle>>
    /\ doc' = 0
    /\ idx' = 0
    /\ UNCHANGED <<excel, df, is_cancelled, stats, position_counter,
                   processed_count, gi, output_filename, finished, cancelled,
                   error, current_file, written, group_status, fate,
                   close_faulted>>
    /\ UNCHANGED <<filled, handlerVars, otherVars>>

\* a suffix that numbers the earlier rows instead of the row itself
filename_suffix_Earlier(seen) == IF seen = 0 THEN "" ELSE "_" \o ToString(seen)

\* the output file name of a row, lines 240-250: suffix "" for the first row
\* with this POSICAO, "_<n>" for the n-th
filename_suffix(seen) == IF seen = 0 THEN "" ELSE "_" \o ToString(seen + 1)
OutputFilename(posicao, seen) == posicao \o filename_suffix(seen) \o ".dwg"

\* template_doc.Close(False) in try/except, lines 222-225 and 334-337
CloseTemplate ==
    \E o \in CloseAnswers(open_docs, template_doc, faults) :
        /\ open_docs' = DocsAfterClose(open_docs, template_doc, o)
        /\ faults' = faults + CloseFaults(open_docs, template_doc, o)
        /\ server_calls' = server_calls \cup CloseCalls(template_doc)
        /\ group_calls' = [group_calls EXCEPT
                              ![tipo_suporte] = @ \cup CloseCalls(template_doc)]
        /\ close_faulted' = (close_faulted \/ CloseFaulted(open_docs, template_doc, o))

\* lines 240-256: duplicate handling, output file name, progress signals
StartRow ==
    LET posicao == row.POSICAO
        seen == position_counter[posicao]
    IN  /\ position_counter' = [position_counter EXCEPT ![posicao] = @ + 1]
        /\ stats' = IF seen = 0 THEN stats
                    ELSE [stats EXCEPT
                             !.duplicates = @ + 1,
                             !.duplicate_details =
                                 Append(@, posicao \o " -> " \o posicao
                                               \o filename_suffix(seen))]
        /\ output_filename' = OutputFilename(posicao, seen)
        /\ current_file' = Append(current_file,
                                  [row |-> GroupDf(tipo_suporte)[idx + 1],
                                   posicao |-> posicao,
                                   tipo_suporte |-> tipo_suporte,
                                   output_filename |-> output_filename'])

\* run, lines 219-256 and 333-339: the loop head of the rows of a group: end
\* of the group (close the template), cancellation checkpoint, start of a row
RowHead ==
    /\ pc = "row_head"
    /\ IF idx >= Len(GroupDf(tipo_suporte))
       THEN /\ CloseTemplate
            /\ processed_count' = processed_count + Len(GroupDf(tipo_suporte))
            /\ group_status' = [group_status EXCEPT ![tipo_suporte] = "closed"]
            /\ gi' = gi + 1
            /\ pc' = "group_head"
            /\ content' = <<>>
            /\ UNCHANGED <<stats, position_counter, output_filename, cancelled,
                           current_file>>
       ELSE IF CancelRequested
       THEN /\ CloseTemplate
            /\ cancelled' = cancelled + 1
            /\ pc' = "done"
            /\ UNCHANGED <<stats, position_counter, output_filename,
                           current_file, processed_count, group_status, gi,
                           content>>
       ELSE /\ StartRow
            /\ pc' = "row_open"
            /\ UNCHANGED <<open_docs, server_calls, group_calls, close_faulted, faults,
                           cancelled, processed_count, group_status, gi, content>>
    /\ UNCHANGED <<excel, df, is_cancelled, idx, template_doc, doc, exc,
                   finished, error, next_handle, written, fate>>
    /\ filled' = NoFill
    /\ UNCHANGED <<handlerVars, otherVars>>

\* run, lines 270-281: the row's document: the template instance for the
\* first row of the group, the template opened again for the others
RowOpen ==
    /\ pc = "row_open"
    /\ IF idx > 0
       THEN \E outs \in Answers(2) :
              LET r == StaticRetry(outs, 2)
              IN  /\ server_calls' = server_calls \cup {"Open"}
                  /\ group_calls' = [group_calls EXCEPT ![tipo_suporte] = @ \cup {"Open"}]
                  /\ faults' = faults + Faulty(outs)
                  /\ IF r.ok
                     THEN /\ doc' = next_handle
                          /\ open_docs' = open_docs \cup {next_handle}
                          /\ next_handle' = next_handle + 1
                          /\ pc' = "fill"
                          /\ exc' = exc
                     ELSE /\ exc' = r.exc
                          /\ pc' = Catch("reopen")
                          /\ UNCHANGED <<doc, open_docs, next_handle>>
       ELSE /\ doc' = template_doc
            /\ pc' = "fill"
            /\ UNCHANGED <<server_calls, group_calls, faults, open_docs,
                           next_handle, exc>>
    /\ UNCHANGED <<excel, df, is_cancelled, stats, position_counter,
                   processed_count, gi, idx, template_doc, output_filename,
                   finished, cancelled, error, current_file, content, written,
                   group_status, fate, close_faulted>>
    /\ UNCHANGED <<filled, handlerVars, otherVars>>

(***************************************************************************)
(* fill_attributes, lines 287-296.  One run of it is a sequence of server  *)
(* accesses: each entity of PaperSpace, then each attribute of an entity   *)
(* that is a block reference with attributes.  A run completes or faults   *)
(* after some of them.                                                     *)
(***************************************************************************)
RECURSIVE Accesses(_)
Accesses(entities) ==
    IF entities = <<>> THEN <<>>
    ELSE LET e == Head(entities)
         IN  <<[kind |-> "entity", block |-> e.block, tag |-> ""]>>
                 \o (IF e.block
                     THEN [k \in 1..Len(e.tags) |->
                              [kind |-> "attr", block |-> TRUE, tag |-> e.tags[k]]]
                     ELSE <<>>)
                 \o Accesses(Tail(entities))

\* found_attributes and the attributes written, after the first n accesses
FoundIn(acc, n) == \E k \in 1..n : acc[k].kind = "entity" /\ acc[k].block
WrittenIn(acc, n) ==
    Cardinality({k \in 1..n :
                    acc[k].kind = "attr" /\ Upper(acc[k].tag) \in AttributeMappingKeys})

\* lines 292-296: the attributes of the document after the invocations of
\* fill_attributes, the k-th having completed reached[k] accesses: for each
\* attribute its tag and its text, which is row i's value when an
\* invocation reached it and its tag is mapped, and the template's (0)
\* otherwise
AttribsAfter(acc, reached, calls, i) ==
    LET at == SelectSeq([k \in DOMAIN acc |-> k], LAMBDA k : acc[k].kind = "attr")
    IN  [n \in DOMAIN at |->
            [tag |-> acc[at[n]].tag,
             text |-> IF /\ Upper(acc[at[n]].tag) \in AttributeMappingKeys
                         /\ \E j \in 1..calls : at[n] <= reached[j]
                      THEN i ELSE 0]]

\* the row is skipped as "no attributes", line 307
NoAttributes(found_attributes, attr_count) == ~found_attributes \/ attr_count = 0

\* lines 308-317: count the row as no_attributes, close its document unless
\* it is the template instance
SkipRow(used) ==
    \E o \in IF idx > 0 THEN CloseAnswers(open_docs, doc, used) ELSE {"S_OK"} :
        /\ stats' = [stats EXCEPT
                        !.no_attributes = @ + 1,
                        !.no_attributes_details =
                            Append(@, row.POSICAO \o " (Tipo: " \o tipo_suporte \o ")")]
        /\ fate' = Counted(fate, <<GroupDf(tipo_suporte)[idx + 1]>>, "no_attributes")
        /\ open_docs' = IF idx > 0 THEN DocsAfterClose(open_docs, doc, o) ELSE open_docs
        /\ server_calls' = server_calls \cup {"Fill"}
                               \cup (IF idx > 0 THEN CloseCalls(doc) ELSE {})
        /\ group_calls' = [group_calls EXCEPT
                              ![tipo_suporte] =
                                  @ \cup {"Fill"}
                                    \cup (IF idx > 0 THEN CloseCalls(doc) ELSE {})]
        /\ close_faulted' = (close_faulted \/ (idx > 0 /\ CloseFaulted(open_docs, doc, o)))
        /\ faults' = used + (IF idx > 0 THEN CloseFaults(open_docs, doc, o) ELSE 0)
        /\ doc' = 0
        /\ idx' = idx + 1
        /\ pc' = "row_head"

\* run, lines 283-317: fill the attributes (faults swallowed), skip the row
\* when nothing was filled
Fill ==
    /\ pc = "fill"
    /\ LET acc == Accesses(content)
       IN  \E outs \in Answers(2), reached \in [1..2 -> 0..Len(acc)] :
              LET r == StaticRetry(outs, 2)
                  found_attributes == \E k \in 1..r.calls : FoundIn(acc, reached[k])
                  attr_count == WrittenIn(acc, reached[1])
                                   + (IF r.calls > 1 THEN WrittenIn(acc, reached[2]) ELSE 0)
              IN  /\ \A k \in 1..2 :
                        /\ (k > r.calls => reached[k] = 0)
                        /\ (k <= r.calls /\ outs[k] = "S_OK" => reached[k] = Len(acc))
                  /\ filled' = [row |-> GroupDf(tipo_suporte)[idx + 1],
                                 raised |-> ~r.ok,
                                 attribs |-> AttribsAfter(
                                     acc, reached, r.calls,
                                     GroupDf(tipo_suporte)[idx + 1])]
                  /\ IF NoAttributes(found_attributes, attr_count)
                     THEN SkipRow(faults + Faulty(outs))
                     ELSE /\ faults' = faults + Faulty(outs)
                          /\ server_calls' = server_calls \cup {"Fill"}
                          /\ group_calls' = [group_calls EXCEPT
                                                ![tipo_suporte] = @ \cup {"Fill"}]
                          /\ pc' = "save"
                          /\ UNCHANGED <<stats, fate, open_docs, close_faulted, doc, idx>>
    /\ UNCHANGED <<excel, df, is_cancelled, position_counter, processed_count,
                   gi, template_doc, output_filename, exc, finished, cancelled,
                   error, current_file, next_handle, content, written,
                   group_status>>
    /\ UNCHANGED <<handlerVars, otherVars>>

\* run, lines 319-331: SaveAs, Close, count the row as a success
Save ==
    /\ pc = "save"
    /\ \E outs \in Answers(2) :
          LET r == StaticRetry(outs, 2)
          IN  IF ~r.ok
              THEN /\ server_calls' = server_calls \cup {"SaveAs"}
                   /\ group_calls' = [group_calls EXCEPT ![tipo_suporte] = @ \cup {"SaveAs"}]
                   /\ faults' = faults + Faulty(outs)
                   /\ exc' = r.exc
                   /\ pc' = Catch("saveas")
                   /\ UNCHANGED <<written, open_docs, close_faulted, doc, stats,
                                  fate, idx>>
              ELSE \E o \in CloseAnswers(open_docs, doc, faults + Faulty(outs)) :
                     /\ written' = Append(written, output_filename)
                     /\ faults' = faults + Faulty(outs) + CloseFaults(open_docs, doc, o)
                     /\ server_calls' = server_calls \cup {"SaveAs", "Close"}
                     /\ group_calls' = [group_calls EXCEPT
                                           ![tipo_suporte] = @ \cup {"SaveAs", "Close"}]
                     /\ close_faulted' = (close_faulted \/ CloseFaulted(open_docs, doc, o))
                     /\ open_docs' = DocsAfterClose(open_docs, doc, o)
                     /\ IF CloseRaises(open_docs, doc, o)
                        THEN /\ exc' = o
                             /\ pc' = Catch("close")
                             /\ UNCHANGED <<doc, stats, fate, idx>>
                        ELSE /\ doc' = 0
                             /\ stats' = [stats EXCEPT !.success = @ + 1]
                             /\ fate' = Counted(fate, <<GroupDf(tipo_suporte)[idx + 1]>>,
                                                "success")
                             /\ idx' = idx + 1
                             /\ pc' = "row_head"
                             /\ exc' = exc
    /\ UNCHANGED <<excel, df, is_cancelled, position_counter, processed_count,
                   gi, template_doc, output_filename, finished, cancelled,
                   error, current_file, next_handle, content, group_status>>
    /\ UNCHANGED <<filled, handlerVars, otherVars>>

\* lines 343-345: the rows of the group the handler counts as errors
ErrorRows == GroupDf(tipo_suporte)

\* lines 346-354: close doc, then template_doc, all faults swallowed
CloseAfterError ==
    \E o1 \in CloseAnswers(open_docs, doc, faults) :
        LET docs1 == IF doc # 0 THEN DocsAfterClose(open_docs, doc, o1) ELSE open_docs
            f1 == doc # 0 /\ CloseFaulted(open_docs, doc, o1)
            n1 == IF f1 THEN 1 ELSE 0
        IN  IF doc # 0 /\ CloseRaises(open_docs, doc, o1)
            THEN /\ open_docs' = docs1
                 /\ faults' = faults + n1
                 /\ server_calls' = server_calls \cup CloseCalls(doc)
                 /\ group_calls' = [group_calls EXCEPT
                                       ![tipo_suporte] = @ \cup CloseCalls(doc)]
                 /\ close_faulted' = (close_faulted \/ f1)
            ELSE \E o2 \in CloseAnswers(docs1, template_doc, faults + n1) :
                   /\ open_docs' = DocsAfterClose(docs1, template_doc, o2)
                   /\ faults' = faults + n1 + CloseFaults(docs1, template_doc, o2)
                   /\ server_calls' = server_calls \cup CloseCalls(doc)
                                          \cup CloseCalls(template_doc)
                   /\ group_calls' = [group_calls EXCEPT
                                         ![tipo_suporte] =
                                             @ \cup CloseCalls(doc)
                                               \cup CloseCalls(template_doc)]
                   /\ close_faulted' = (close_faulted \/ f1
                                           \/ CloseFaulted(docs1, template_doc, o2))

\* run, lines 341-354: the handler of the group's try: count the group as
\* errors, close the documents, go on with the next group
GroupExcept ==
    /\ pc = "group_except"
    /\ stats' = [stats EXCEPT
                    !.errors = @ + Len(ErrorRows),
                    !.error_details = @ \o ErrorTexts(ErrorRows, exc)]
    /\ fate' = Counted(fate, ErrorRows, "errors")
    /\ CloseAfterError
    /\ group_status' = [group_status EXCEPT ![tipo_suporte] = "failed"]
    /\ gi' = gi + 1
    /\ pc' = "group_head"
    /\ content' = <<>>
    /\ UNCHANGED <<excel, df, is_cancelled, position_counter, processed_count,
                   idx, template_doc, doc, output_filename, exc, finished,
                   cancelled, error, current_file, next_handle, written>>
    /\ filled' = NoFill
    /\ UNCHANGED <<handlerVars, otherVars>>

\* run, lines 359-364: the handler of the run's try
OuterExcept ==
    /\ pc = "outer_except"
    /\ error' = Append(error, "Erro geral: " \o exc)
    /\ stats' = [NewStats EXCEPT
                    !.errors = 1,
                    !.error_details = <<"Erro geral: " \o exc>>]
    /\ finished' = Append(finished, stats')
    /\ pc' = "done"
    /\ UNCHANGED <<excel, df, is_cancelled, position_counter, processed_count,
                   gi, idx, template_doc, doc, output_filename, exc, cancelled,
                   current_file, open_docs, next_handle, content, written,
                   server_calls, faults, group_status, group_calls, fate,
                   close_faulted>>
    /\ filled' = NoFill
    /\ UNCHANGED <<handlerVars, otherVars>>

\* a step of the worker thread
WorkerStep ==
    \/ ReadExcel
    \/ Connect
    \/ GroupHead
    \/ OpenTemplate
    \/ RowHead
    \/ RowOpen
    \/ Fill
    \/ Save
    \/ GroupExcept
    \/ OuterExcept

(***************************************************************************)
(* COMErrorHandler (utils/com_error_handler.py)                            *)
(***************************************************************************)
\* base_delay, in ms
BaseDelayMs == 500

\* what one invocation of func does: return a value, raise com_error with an
\* hresult, or raise another exception
Values == {"v1", "v2"}
Returns(v) == [kind |-> "return", value |-> v]
ComError(hresult) == [kind |-> "com_error", value |-> hresult]
OtherException == [kind |-> "exception", value |-> "ValueError"]
FuncOutcomes ==
    {Returns(v) : v \in Values} \cup {ComError(f) : f \in Faults} \cup {OtherException}

OperationNames == {"Operation", "Open"}

\* a handler that retries every com_error, whatever its hresult
IsTransient_AnyComError(o) == o.kind = "com_error"

\* line 85: the fault is one the handler retries
IsTransient(o) ==
    o.kind = "com_error"
        /\ o.value \in {RPC_E_CALL_REJECTED, RPC_E_SERVERCALL_RETRYLATER}

\* COMErrorInfo(attempt, operation_name, e)
COMErrorInfo(attempt, operation, o) ==
    [attempt |-> attempt, operation |-> operation, exception |-> o]

\* a handler that logs every attempt, the successful one as well
LogAfter_EveryAttempt(log, attempt, operation, o) ==
    Append(log, COMErrorInfo(attempt, operation, o))

\* lines 81-82 and 96-97: the log after an invocation that did o
LogAfter(log, attempt, operation, o) ==
    IF o.kind = "return" THEN log
    ELSE Append(log, COMErrorInfo(attempt, operation, o))

\* a handler that raises the generic failure in place of the fault
Raised_Generic(o) == [kind |-> "raise", value |-> "falhou apos tentativas"]

\* lines 93 and 98: the bare raise propagates the fault that was caught
Raised(o) == [kind |-> "raise", value |-> o.value]

\* line 88: the delay slept after a transient fault of this attempt
Delay(attempt) == BaseDelayMs * attempt

InitHandlerIdle ==
    /\ h_pc = "idle"
    /\ h_error_log = <<>>
    /\ h_operation_name = ""
    /\ h_retries = 0
    /\ h_attempt = 0
    /\ h_outcomes = <<>>
    /\ h_slept = <<>>
    /\ h_result = [kind |-> "none", value |-> ""]
    /\ h_log_before = 0
    /\ h_execs = 0

\* execute_with_retry is called, lines 55-77 and 100: retries = max_retries,
\* or self.max_retries; with no attempt to make the generic failure is raised
Execute ==
    /\ h_pc = "idle"
    /\ h_execs < MaxExec
    /\ \E retries \in 0..MaxAttempts, name \in OperationNames :
          /\ h_retries' = retries
          /\ h_operation_name' = name
          /\ IF retries >= 1
             THEN /\ h_pc' = "attempt"
                  /\ h_result' = [kind |-> "none", value |-> ""]
             ELSE /\ h_pc' = "idle"
                  /\ h_result' = [kind |-> "raise", value |-> "falhou apos tentativas"]
    /\ h_attempt' = 1
    /\ h_outcomes' = <<>>
    /\ h_slept' = <<>>
    /\ h_log_before' = Len(h_error_log)
    /\ h_execs' = h_execs + 1
    /\ UNCHANGED h_error_log
    /\ UNCHANGED <<workerVars, otherVars>>

\* one turn of the loop, lines 77-98: invoke func; return its value, or log
\* the fault and sleep and retry, or log it and raise it again
Attempt ==
    /\ h_pc = "attempt"
    /\ \E o \in FuncOutcomes :
          /\ h_outcomes' = Append(h_outcomes, o)
          /\ h_error_log' = LogAfter(h_error_log, h_attempt, h_operation_name, o)
          /\ IF o.kind = "return"
             THEN /\ h_result' = [kind |-> "return", value |-> o.value]
                  /\ h_pc' = "idle"
                  /\ UNCHANGED <<h_attempt, h_slept>>
             ELSE IF IsTransient(o) /\ h_attempt < h_retries
             THEN /\ h_slept' = Append(h_slept, Delay(h_attempt))
                  /\ h_attempt' = h_attempt + 1
                  /\ UNCHANGED <<h_pc, h_result>>
             ELSE /\ h_result' = Raised(o)
                  /\ h_pc' = "idle"
                  /\ UNCHANGED <<h_attempt, h_slept>>
    /\ UNCHANGED <<h_operation_name, h_retries, h_log_before, h_execs>>
    /\ UNCHANGED <<workerVars, otherVars>>

(***************************************************************************)
(* Specifications.                                                         *)
(***************************************************************************)
\* no worker exists
NoWorker ==
    /\ excel = [readable |-> FALSE, columns |-> {}]
    /\ df = <<>>
    /\ pc = "done"
    /\ is_cancelled = FALSE
    /\ stats = NewStats
    /\ position_counter = [p \in Posicoes |-> 0]
    /\ processed_count = 0
    /\ gi = 1
    /\ idx = 0
    /\ template_doc = 0
    /\ doc = 0
    /\ output_filename = ""
    /\ exc = ""
    /\ finished = <<>>
    /\ cancelled = 0
    /\ error = <<>>
    /\ current_file = <<>>
    /\ open_docs = UserDocs
    /\ next_handle = 2
    /\ content = <<>>
    /\ written = <<>>
    /\ server_calls = {}
    /\ faults = 0
    /\ group_status = [t \in Tipos |-> "pending"]
    /\ group_calls = [t \in Tipos |-> {}]
    /\ fate = <<>>
    /\ close_faulted = FALSE
    /\ filled = NoFill

\* the pipeline's execute_with_retry has not been called alone
StaticIdle ==
    /\ s_outs = <<>>
    /\ s_max_retries = 0
    /\ s_result = [ok |-> FALSE, exc |-> "", calls |-> 0, slept |-> <<>>]
    /\ s_calls = 0

\* COMErrorHandler.execute_with_retry of the pipeline (lines 70-101), called
\* with max_retries on an operation that answers outs
StaticExecute ==
    /\ s_calls < MaxExec
    /\ \E max_retries \in 0..MaxAttempts :
          \E outs \in [1..max_retries -> ServerAnswers] :
              /\ s_outs' = outs
              /\ s_max_retries' = max_retries
              /\ s_result' = StaticRetry(outs, max_retries)
    /\ s_calls' = s_calls + 1
    /\ UNCHANGED <<workerVars, handlerVars, toolVars, connVars, retryVars, serverVars, repoVars>>

(***************************************************************************)
(* AutocadCOMConnector (utils/autocad_connector.py) and the server.        *)
(* A handle is the number of the server process it came from: it answers   *)
(* while that process runs, and faults afterwards.                         *)
(***************************************************************************)
NoReturn == [op |-> "", ok |-> FALSE, msg |-> "", value |-> <<>>]
NoArgs == [esperar_documento |-> FALSE, timeout_seg |-> 0]

\* __init__, lines 30-36
InitConnector ==
    /\ c_pc = "idle"
    /\ c_acad = 0
    /\ c_acad_doc = 0
    /\ c_acad_model = 0
    /\ c_is_initialized = FALSE
    /\ c_args = NoArgs
    /\ c_elapsed = 0
    /\ c_checked = -1
    /\ c_ret = NoReturn
    /\ c_trace = <<>>
    /\ c_held = FALSE
    /\ c_attempt = 0
    /\ g_error_log = <<>>
    /\ u_calls = 0
    /\ c_skipped = {}

\* SuporteRepository.__init__, lines 17-21
InitRepository ==
    /\ r_cache = <<>>
    /\ r_cache_dirty = TRUE
    /\ r_pc = "idle"
    /\ r_blocos = <<>>
    /\ r_before = 0

\* no server process runs
NoServer ==
    /\ srv_running = FALSE
    /\ srv_gen = 0
    /\ srv_docs = 0
    /\ drawing = <<>>

\* is_connected, lines 44-47
is_connected == c_acad # 0 /\ c_acad_doc # 0

\* the handle h still answers: the process it came from is the one running
Alive(h) == srv_running /\ h # 0 /\ h = srv_gen

\* the user starts the server, with or without a drawing open
ServerStart ==
    /\ ~srv_running
    /\ srv_gen < MaxGen
    /\ srv_running' = TRUE
    /\ srv_gen' = srv_gen + 1
    /\ srv_docs' \in 0..MaxDocs
    /\ UNCHANGED <<drawing, workerVars, handlerVars, toolVars, staticVars, retryVars, connVars, repoVars>>

\* the server process ends
ServerStop ==
    /\ srv_running
    /\ srv_running' = FALSE
    /\ srv_docs' = 0
    /\ UNCHANGED <<srv_gen, drawing, workerVars, handlerVars, toolVars, staticVars, retryVars, connVars,
                   repoVars>>

\* the user opens a document in the server
DocOpen ==
    /\ srv_running
    /\ srv_docs < MaxDocs
    /\ srv_docs' = srv_docs + 1
    /\ UNCHANGED <<srv_running, srv_gen, drawing, workerVars, handlerVars, toolVars,
                   staticVars, retryVars, connVars, repoVars>>

\* the user closes a document
DocClose ==
    /\ srv_running
    /\ srv_docs > 0
    /\ srv_docs' = srv_docs - 1
    /\ UNCHANGED <<srv_running, srv_gen, drawing, workerVars, handlerVars, toolVars,
                   staticVars, retryVars, connVars, repoVars>>

Called(call, ok) == [call |-> call, ok |-> ok]
Returned(op, ok, msg) == [op |-> op, ok |-> ok, msg |-> msg, value |-> <<>>]
ReturnedValue(op, value) == [op |-> op, ok |-> TRUE, msg |-> "", value |-> value]

\* the four fields _cleanup leaves, lines 142-147
Cleared_KeepsDocument(a, d, m, i) == <<0, d, 0, FALSE>>
Cleared(a, d, m, i) == <<0, 0, 0, FALSE>>

SetHandles(h) ==
    /\ c_acad' = h[1]
    /\ c_acad_doc' = h[2]
    /\ c_acad_model' = h[3]
    /\ c_is_initialized' = h[4]

Handles == <<c_acad, c_acad_doc, c_acad_model, c_is_initialized>>

\* _cleanup, lines 142-147
Cleanup == SetHandles(Cleared(c_acad, c_acad_doc, c_acad_model, c_is_initialized))

\* conectar, line 79: launch only when nothing was attached
ShouldLaunch_Always(acad) == TRUE
ShouldLaunch(acad) == acad = 0

\* conectar, lines 75-89 up to the first poll: attach, launch, and the early returns
ConectarStart ==
    /\ c_pc = "idle"
    /\ \E esperar_documento \in BOOLEAN, timeout_seg \in 0..MaxTimeout,
          attach_ok \in BOOLEAN, launch_ok \in BOOLEAN, docs \in 0..MaxDocs :
          LET attached == IF srv_running /\ attach_ok THEN srv_gen ELSE 0
              launch == ShouldLaunch(attached)
              can_launch == launch_ok /\ (srv_running \/ srv_gen < MaxGen)
              starts == launch /\ can_launch /\ ~srv_running
              acad == IF ~launch THEN attached
                      ELSE IF ~can_launch THEN 0
                      ELSE IF srv_running THEN srv_gen ELSE srv_gen + 1
          IN  /\ c_args' = [esperar_documento |-> esperar_documento,
                            timeout_seg |-> timeout_seg]
              /\ c_held' = is_connected
              /\ c_trace' = <<Called("GetActiveObject", attached # 0)>>
                            \o (IF launch THEN <<Called("Dispatch", acad # 0)>> ELSE <<>>)
              /\ IF starts
                 THEN /\ srv_running' = TRUE
                      /\ srv_gen' = srv_gen + 1
                      /\ srv_docs' = docs
                 ELSE UNCHANGED <<srv_running, srv_gen, srv_docs>>
              /\ c_acad' = acad
              /\ c_elapsed' = 0
              /\ c_checked' = -1
              /\ IF acad = 0
                 THEN /\ c_pc' = "idle"                               \* line 84
                      /\ c_ret' = Returned("conectar", FALSE, "")
                 ELSE /\ c_pc' = IF esperar_documento THEN "wait" ELSE "bind"
                      /\ c_ret' = NoReturn
    /\ UNCHANGED <<c_acad_doc, c_acad_model, c_is_initialized, drawing,
                   workerVars, handlerVars, toolVars, staticVars, retryVars, repoVars>>

\* _wait_for_document, lines 133-140: one turn of the loop; a fault of the
\* server leaves through conectar's handler, lines 104-106
ConectarPoll ==
    /\ c_pc = "wait"
    /\ \E fault \in BOOLEAN, slept \in 1..2 :
          IF fault \/ ~Alive(c_acad)
          THEN /\ Cleanup
               /\ c_trace' = Append(c_trace, Called("Documents.Count", FALSE))
               /\ c_pc' = "idle"
               /\ c_ret' = Returned("conectar", FALSE, "")
               /\ UNCHANGED <<c_elapsed, c_checked>>
          ELSE /\ c_trace' = Append(c_trace, Called("Documents.Count", TRUE))
               /\ UNCHANGED <<c_acad, c_acad_doc, c_acad_model, c_is_initialized>>
               /\ IF srv_docs > 0
                  THEN /\ c_pc' = "bind"                              \* line 140
                       /\ UNCHANGED <<c_elapsed, c_checked, c_ret>>
                  ELSE IF c_elapsed > 2 * c_args.timeout_seg
                  THEN /\ c_pc' = "idle"                              \* lines 137, 89
                       /\ c_ret' = Returned("conectar", FALSE, "")
                       /\ c_checked' = c_elapsed
                       /\ UNCHANGED c_elapsed
                  ELSE /\ c_elapsed' = c_elapsed + slept              \* line 138
                       /\ c_checked' = c_elapsed
                       /\ UNCHANGED <<c_pc, c_ret>>
    /\ UNCHANGED <<c_args, c_held, serverVars, workerVars, handlerVars, toolVars, staticVars, retryVars,
                   repoVars>>

\* the calls of conectar, lines 92-101, in order
BindCalls ==
    <<"ActiveDocument", "ModelSpace", "Version", "Name", "Documents.Count",
      "ModelSpace.Count">>

\* the calls made up to call number n, the last of them faulting when failed
CallsUpTo(calls, n, failed) ==
    [k \in 1..n |-> Called(calls[k], ~(failed /\ k = n))]

\* conectar, lines 92-106: bind the document and the drawing space, read the
\* ConnectionInfo fields
ConectarBind ==
    /\ c_pc = "bind"
    /\ \E failat \in 0..Len(BindCalls) :
          LET dead == ~Alive(c_acad) \/ srv_docs = 0
              at == IF dead THEN 1 ELSE failat
          IN  /\ c_trace' = c_trace \o
                    CallsUpTo(BindCalls, IF at = 0 THEN Len(BindCalls) ELSE at, at # 0)
              /\ IF at = 0
                 THEN /\ SetHandles(<<c_acad, c_acad, c_acad, TRUE>>)
                      /\ c_ret' = Returned("conectar", TRUE, "")
                 ELSE /\ Cleanup
                      /\ c_ret' = Returned("conectar", FALSE, "")
    /\ c_pc' = "idle"
    /\ UNCHANGED <<c_args, c_elapsed, c_checked, c_held, serverVars, workerVars,
                   handlerVars, toolVars, staticVars, retryVars, repoVars>>

\* the calls of _ensure_valid_connection after its probe, lines 171-175
EnsureCalls == <<"GetActiveObject", "Documents.Count", "ActiveDocument", "ModelSpace">>

\* _ensure_valid_connection, lines 157-181: what it returns, the handles it
\* leaves and the calls it makes
EnsureFrom(h, probe_fault, attach_ok, failat) ==
    IF h[1] = 0
    THEN [valid |-> FALSE, handles |-> h, trace |-> <<>>]                \* line 158
    ELSE IF Alive(h[1]) /\ ~probe_fault
    THEN [valid |-> TRUE, handles |-> h,                                 \* line 163
          trace |-> <<Called("Version", TRUE)>>]
    ELSE LET cleared == Cleared(h[1], h[2], h[3], h[4])
             probe == <<Called("Version", FALSE)>>
             acad == IF srv_running /\ attach_ok THEN srv_gen ELSE 0
         IN  IF acad = 0
             THEN [valid |-> FALSE, handles |-> cleared,
                   trace |-> probe \o CallsUpTo(EnsureCalls, 1, TRUE)]
             ELSE IF failat = 2
             THEN [valid |-> FALSE, handles |-> <<acad, cleared[2], cleared[3], cleared[4]>>,
                   trace |-> probe \o CallsUpTo(EnsureCalls, 2, TRUE)]
             ELSE IF srv_docs = 0
             THEN [valid |-> FALSE, handles |-> <<acad, cleared[2], cleared[3], cleared[4]>>,
                   trace |-> probe \o CallsUpTo(EnsureCalls, 2, FALSE)]
             ELSE IF failat = 3
             THEN [valid |-> FALSE, handles |-> <<acad, cleared[2], cleared[3], cleared[4]>>,
                   trace |-> probe \o CallsUpTo(EnsureCalls, 3, TRUE)]
             ELSE IF failat = 4
             THEN [valid |-> FALSE, handles |-> <<acad, acad, cleared[3], cleared[4]>>,
                   trace |-> probe \o CallsUpTo(EnsureCalls, 4, TRUE)]
             ELSE [valid |-> TRUE, handles |-> <<acad, acad, acad, TRUE>>,
                   trace |-> probe \o CallsUpTo(EnsureCalls, 4, FALSE)]

EnsureOutcome(probe_fault, attach_ok, failat) ==
    EnsureFrom(Handles, probe_fault, attach_ok, failat)

\* the faults the server can answer _ensure_valid_connection with
EnsureFaults == {0, 2, 3, 4}

\* _ensure_valid_connection, lines 149-181, called on its own
EnsureValid ==
    /\ c_pc = "idle"
    /\ \E probe_fault \in BOOLEAN, attach_ok \in BOOLEAN, failat \in EnsureFaults :
          LET e == EnsureOutcome(probe_fault, attach_ok, failat)
          IN  /\ SetHandles(e.handles)
              /\ c_trace' = e.trace
              /\ c_ret' = Returned("_ensure_valid_connection", e.valid, "")
    /\ c_held' = is_connected
    /\ UNCHANGED <<c_pc, c_args, c_elapsed, c_checked, serverVars, workerVars,
                   handlerVars, toolVars, staticVars, retryVars, repoVars>>

\* desconectar, lines 183-185
Desconectar ==
    /\ c_pc = "idle"
    /\ Cleanup
    /\ c_trace' = <<>>
    /\ c_ret' = Returned("desconectar", TRUE, "")
    /\ c_held' = is_connected
    /\ UNCHANGED <<c_pc, c_args, c_elapsed, c_checked, serverVars, workerVars,
                   handlerVars, toolVars, staticVars, retryVars, repoVars>>

\* SuporteRepository.desconectar, lines 46-50
RepoDesconectar ==
    /\ c_pc = "idle"
    /\ r_pc = "idle"
    /\ Cleanup
    /\ c_trace' = <<>>
    /\ c_ret' = Returned("repository.desconectar", TRUE, "")
    /\ c_held' = is_connected
    /\ r_before' = Len(r_cache)
    /\ r_cache' = <<>>
    /\ r_cache_dirty' = TRUE
    /\ UNCHANGED <<r_pc, r_blocos>>
    /\ UNCHANGED <<c_pc, c_args, c_elapsed, c_checked, serverVars, workerVars,
                   handlerVars, toolVars, staticVars, retryVars>>

(***************************************************************************)
(* The drawing: entities of the model space in index order.  Block names   *)
(* and prefixes are sequences of characters, so that startswith is         *)
(* computed; a property value is a number or a text.                       *)
(***************************************************************************)
Num(n) == [numeric |-> TRUE, n |-> n]
Text == [numeric |-> FALSE, n |-> 0]

Attrib(tag, text) == [TagString |-> tag, TextString |-> text]

\* a dynamic property; bounded: it has ValueMinimum and ValueMaximum
DynProp(name, value, bounded, lo, hi) ==
    [PropertyName |-> name, Value |-> value, bounded |-> bounded,
     ValueMinimum |-> lo, ValueMaximum |-> hi, Show |-> TRUE, ReadOnly |-> FALSE]

ModelEntity(entity_name, name, handle, attribs, props) ==
    [EntityName |-> entity_name, Name |-> name, Handle |-> handle,
     HasAttributes |-> attribs # <<>>, attribs |-> attribs,
     IsDynamicBlock |-> props # <<>>, props |-> props,
     Layer |-> "0", InsertionPoint |-> <<0, 0, 0>>]

SP_A == <<"S", "P", "_", "A">>
XX_A == <<"X", "X", "_", "A">>

Altura == DynProp("Altura", Num(1), TRUE, 1, 2)
\* Largura is read-only in the server
Largura == [DynProp("Largura", Num(1), FALSE, 0, 0) EXCEPT !.ReadOnly = TRUE]
Origin == DynProp("Origin", Num(0), FALSE, 0, 0)

\* entities with and without dynamic properties, but for their handles
DynamicShapes(h) ==
    { ModelEntity("AcDbLine", <<>>, h, <<>>, <<>>),
      ModelEntity("AcDbBlockReference", SP_A, h, <<Attrib("POSICAO", "P-1")>>,
                  <<Origin, Largura, Altura>>),
      ModelEntity("AcDbBlockReference", SP_A, h, <<>>, <<Altura>>) }

\* entities that differ in kind, name and attributes, but for their handles
Shapes(h) ==
    { ModelEntity("AcDbLine", <<>>, h, <<>>, <<>>),
      ModelEntity("AcDbBlockReference", SP_A, h, <<Attrib("POSICAO", "P-1")>>,
                  <<Origin, Largura, Altura>>),
      ModelEntity("AcDbBlockReference", SP_A, h, <<Attrib("posicao", "P-2")>>, <<>>),
      ModelEntity("AcDbBlockReference", XX_A, h, <<Attrib("POSICAO", "P-3")>>, <<>>),
      ModelEntity("AcDbBlockReference", SP_A, h, <<>>, <<Altura>>),
      ModelEntity("AcDbBlockReference", SP_A, h,
                  <<Attrib("POSICAO", ""), Attrib("POSICAO", "P-4")>>, <<>>),
      ModelEntity("AcDbBlockReference", SP_A, h,
                  <<Attrib("OUTRO", "x"), Attrib("POSICAO", "P-5")>>, <<>>) }

HandleNames == <<"H1", "H2", "H3">>

\* drawings of up to MaxEntities entities, each with a handle of its own
DrawingsOf(shapes(_)) ==
    UNION { { d \in [1..n -> UNION {shapes(HandleNames[i]) : i \in 1..n}] :
                \A i \in 1..n : d[i].Handle = HandleNames[i] } : n \in 0..MaxEntities }
ModelSpaces == DrawingsOf(Shapes)
DynamicModelSpaces == DrawingsOf(DynamicShapes)

\* the model space answers: the handle is bound, its server runs and the
\* document is still open
ModelAnswers == c_acad_model # 0 /\ Alive(c_acad_model) /\ srv_docs > 0

(***************************************************************************)
(* One invocation of the function a connector method hands to              *)
(* execute_with_retry meets at most one fault: of Count, outside the       *)
(* per-entity try, or of a call on one entity, inside it.                  *)
(***************************************************************************)
NoFault == [at |-> "none", entity |-> 0, code |-> "S_OK"]
FaultPlans(d, inner) ==
    {NoFault}
        \cup {[at |-> "Count", entity |-> 0, code |-> f] : f \in Faults}
        \cup {[at |-> a, entity |-> i, code |-> f] :
                a \in inner, i \in 1..Len(d), f \in Faults}

\* max_retries of the module-level execute_with_retry
GlobalMaxRetries == 3

\* what the invocation raises when the model space does not answer: None has
\* no Count, a dead server or a closed document raises com_error
Unanswered ==
    IF c_acad_model = 0 THEN [kind |-> "exception", value |-> "AttributeError"]
    ELSE ComError(E_FAIL)

\* the ways _ensure_valid_connection can go, as (probe_fault, attach_ok, failat)
EnsureChoices ==
    {<<FALSE, TRUE, 0>>, <<TRUE, FALSE, 0>>}
        \cup {<<TRUE, TRUE, failat>> : failat \in EnsureFaults}

(***************************************************************************)
(* atualizar_propriedade, lines 360-413                                    *)
(***************************************************************************)
HandleArgs == {HandleNames[i] : i \in 1..(MaxEntities + 1)}
PropertyNames == {"Altura", "Largura", "Nada"}
NovoValores == {Num(n) : n \in 0..3} \cup {Text}

\* line 396, read as a check that lets every value through
InRange_Anything(v, lo, hi) == TRUE

\* line 396: prop.ValueMinimum <= valor_num <= prop.ValueMaximum
InRange(v, lo, hi) == lo <= v /\ v <= hi

\* index of the first property of that name, 0 when there is none
FirstProp(props, nome) ==
    IF \E j \in DOMAIN props : props[j].PropertyName = nome
    THEN CHOOSE j \in DOMAIN props :
            /\ props[j].PropertyName = nome
            /\ \A k \in 1..(j - 1) : props[k].PropertyName # nome
    ELSE 0

OutOfLimits(valor, prop) ==
    "Valor " \o ToString(valor.n) \o " fora dos limites ["
        \o ToString(prop.ValueMinimum) \o ", " \o ToString(prop.ValueMaximum) \o "]"
NotFound == "Bloco ou propriedade nao encontrada"
Updated == "Propriedade atualizada com sucesso"

\* update_prop from entity i on, lines 385-408: what it returns, the drawing
\* it leaves and whether it met the fault
RECURSIVE UpdateFrom(_, _, _, _)
UpdateFrom(d, i, a, p) ==
    IF i > Len(d)
    THEN [out |-> Returns(<<FALSE, NotFound>>), drawing |-> d, met |-> FALSE]
    ELSE IF p.at = "Item" /\ p.entity = i
    THEN [UpdateFrom(d, i + 1, a, p) EXCEPT !.met = TRUE]
    ELSE IF ~(d[i].EntityName = "AcDbBlockReference" /\ d[i].Handle = a.handle)
    THEN UpdateFrom(d, i + 1, a, p)
    ELSE LET j == FirstProp(d[i].props, a.nome_propriedade)
             prop == d[i].props[j]
         IN  IF j = 0 THEN UpdateFrom(d, i + 1, a, p)
             ELSE IF /\ prop.bounded
                     /\ a.novo_valor.numeric
                     /\ ~InRange(a.novo_valor.n, prop.ValueMinimum, prop.ValueMaximum)
             THEN [out |-> Returns(<<FALSE, OutOfLimits(a.novo_valor, prop)>>),
                   drawing |-> d, met |-> FALSE]
             ELSE IF p.at = "Value" /\ p.entity = i
             THEN [UpdateFrom(d, i + 1, a, p) EXCEPT !.met = TRUE]
             ELSE [out |-> Returns(<<TRUE, Updated>>),
                   drawing |-> [d EXCEPT ![i].props[j].Value = a.novo_valor],
                   met |-> FALSE]

\* update_prop, lines 382-408
UpdateProp(d, a, p) ==
    IF ~ModelAnswers THEN [out |-> Unanswered, drawing |-> d, met |-> FALSE]
    ELSE IF p.at = "Count" THEN [out |-> ComError(p.code), drawing |-> d, met |-> FALSE]
    ELSE UpdateFrom(d, 1, a, p)

\* the faults skipped so far, after an invocation that met the fault of p or not
Skipped(p, met) == IF met THEN c_skipped \cup {p.code} ELSE c_skipped

\* no repository method is under way
RepoIdle == r_pc = "idle"

\* atualizar_propriedade up to its call of execute_with_retry, lines 377-410
AtualizarBegin(handle, nome, valor) ==
    /\ c_pc = "idle"
    /\ \E ens \in EnsureChoices :
          LET e == EnsureOutcome(ens[1], ens[2], ens[3])
          IN  /\ SetHandles(e.handles)
              /\ c_trace' = e.trace
              /\ c_args' = [handle |-> handle, nome_propriedade |-> nome,
                            novo_valor |-> valor]
              /\ IF e.valid
                 THEN /\ c_pc' = "update"
                      /\ c_attempt' = 1
                      /\ c_ret' = NoReturn
                 ELSE /\ c_ret' = Returned("atualizar_propriedade", FALSE,
                                           "Nao conectado ao AutoCAD")  \* line 379
                      /\ UNCHANGED <<c_pc, c_attempt>>
    /\ c_held' = is_connected
    /\ c_skipped' = {}
    /\ UNCHANGED <<c_elapsed, c_checked, g_error_log, serverVars, workerVars,
                   handlerVars, toolVars, staticVars>>

\* atualizar_propriedade is called by the connector's user
AtualizarStart ==
    /\ RepoIdle
    /\ u_calls < MaxCalls
    /\ u_calls' = u_calls + 1
    /\ \E handle \in HandleArgs, nome \in PropertyNames, valor \in NovoValores :
          AtualizarBegin(handle, nome, valor)
    /\ UNCHANGED repoVars

\* a turn of the retry loop changes neither the session nor the arguments
RetryFrame ==
    UNCHANGED <<c_acad, c_acad_doc, c_acad_model, c_is_initialized, c_args,
                c_elapsed, c_checked, c_trace, c_held, u_calls, srv_running, srv_gen,
                srv_docs, workerVars, handlerVars, toolVars, staticVars>>

\* one turn of the loop of execute_with_retry, lines 77-98 of
\* com_error_handler.py, around the function of the method under way: o is
\* what the invocation did, done what the method returns when it ends here
RetryTurn(operation, o, done) ==
    /\ g_error_log' = LogAfter(g_error_log, c_attempt, operation, o)
    /\ IF o.kind # "return" /\ IsTransient(o) /\ c_attempt < GlobalMaxRetries
       THEN /\ c_attempt' = c_attempt + 1
            /\ UNCHANGED <<c_pc, c_ret>>
       ELSE /\ c_pc' = "idle"
            /\ c_ret' = done
            /\ UNCHANGED c_attempt

\* one invocation of update_prop under execute_with_retry, and the return of
\* atualizar_propriedade when it was the last, lines 381-413
AtualizarAttempt ==
    /\ c_pc = "update"
    /\ \E p \in FaultPlans(drawing, {"Item", "Value"}) :
          LET u == UpdateProp(drawing, c_args, p)
          IN  /\ drawing' = u.drawing
              /\ c_skipped' = Skipped(p, u.met)
              /\ RetryTurn("Atualizar propriedade " \o c_args.nome_propriedade, u.out,
                           IF u.out.kind = "return"
                           THEN Returned("atualizar_propriedade", u.out.value[1],
                                         u.out.value[2])
                           ELSE Returned("atualizar_propriedade", FALSE,
                                         "Erro ao atualizar: " \o Raised(u.out).value))
    /\ RetryFrame
    /\ UNCHANGED repoVars

(***************************************************************************)
(* listar_blocos_suporte, lines 187-302                                    *)
(***************************************************************************)
TagArgs == {"POSICAO", "posicao"}
PrefixArgs == {<<"S", "P", "_">>, <<"X", "X">>, <<>>}

\* str.startswith, line 240
StartsWith(name, prefix) ==
    Len(prefix) <= Len(name) /\ SubSeq(name, 1, Len(prefix)) = prefix

\* line 255, read as a comparison that ignores the case of both sides
TagMatches_IgnoringCase(attrib, tag_atributo) ==
    Upper(attrib.TagString) = Upper(tag_atributo)

\* line 255: attrib.TagString.upper() == tag_atributo
TagMatches(attrib, tag_atributo) == Upper(attrib.TagString) = tag_atributo

\* lines 252-257: the text of the first attribute whose tag matches, "" when
\* none does
TagSuporte(attribs, tag_atributo) ==
    IF \E j \in DOMAIN attribs : TagMatches(attribs[j], tag_atributo)
    THEN attribs[CHOOSE j \in DOMAIN attribs :
                    /\ TagMatches(attribs[j], tag_atributo)
                    /\ \A k \in 1..(j - 1) : ~TagMatches(attribs[k], tag_atributo)
                ].TextString
    ELSE ""

\* lines 270-279
Bloco(entity, tag_suporte) ==
    [tag |-> tag_suporte, tipo |-> entity.Name, handle |-> entity.Handle,
     layer |-> entity.Layer, posicao_x |-> entity.InsertionPoint[1],
     posicao_y |-> entity.InsertionPoint[2], posicao_z |-> entity.InsertionPoint[3],
     is_dynamic |-> entity.IsDynamicBlock]

\* a scan that gives up at the entity that raised
AfterException_Abort(rest) == [result |-> <<>>, met |-> TRUE]

\* lines 280-283: the exception is counted and the scan goes on with the
\* entities that follow
AfterException(rest) == [rest EXCEPT !.met = TRUE]

\* collect_blocks from entity i on, lines 222-283: the records it appends and
\* whether it met the fault
RECURSIVE CollectFrom(_, _, _, _)
CollectFrom(d, i, a, p) ==
    IF i > Len(d) THEN [result |-> <<>>, met |-> FALSE]
    ELSE LET rest == CollectFrom(d, i + 1, a, p)
             tag_suporte == TagSuporte(d[i].attribs, a.tag_atributo)
         IN  IF p.at = "Item" /\ p.entity = i THEN AfterException(rest)
             ELSE IF d[i].EntityName # "AcDbBlockReference" THEN rest
             ELSE IF ~StartsWith(d[i].Name, a.prefixo_bloco) THEN rest
             ELSE IF ~d[i].HasAttributes THEN rest
             ELSE IF tag_suporte = "" THEN rest
             ELSE [rest EXCEPT !.result = <<Bloco(d[i], tag_suporte)>> \o @]

\* collect_blocks, lines 206-295
CollectBlocks(d, a, p) ==
    IF ~ModelAnswers THEN [out |-> Unanswered, met |-> FALSE]
    ELSE IF p.at = "Count" THEN [out |-> ComError(p.code), met |-> FALSE]
    ELSE LET c == CollectFrom(d, 1, a, p)
         IN  [out |-> Returns(c.result), met |-> c.met]

\* a data method of the connector starts, lines 198-203, 314-319: its
\* _ensure_valid_connection, and on to its execute_with_retry at position pos
\* or back with the value failed
Begin(op, args, pos, failed) ==
    /\ c_pc = "idle"
    /\ \E ens \in EnsureChoices :
          LET e == EnsureOutcome(ens[1], ens[2], ens[3])
          IN  /\ SetHandles(e.handles)
              /\ c_trace' = e.trace
              /\ IF e.valid
                 THEN /\ c_pc' = pos
                      /\ c_attempt' = 1
                      /\ c_ret' = NoReturn
                 ELSE /\ c_ret' = [op |-> op, ok |-> FALSE, msg |-> "Conexao invalida",
                                   value |-> failed]
                      /\ UNCHANGED <<c_pc, c_attempt>>
    /\ c_args' = args
    /\ c_held' = is_connected
    /\ c_skipped' = {}
    /\ UNCHANGED <<c_elapsed, c_checked, g_error_log, serverVars, workerVars,
                   handlerVars, toolVars, staticVars>>

\* listar_blocos_suporte is called by the connector's user
ListarStart ==
    /\ RepoIdle
    /\ u_calls < MaxCalls
    /\ u_calls' = u_calls + 1
    /\ \E tag_atributo \in TagArgs, prefixo_bloco \in PrefixArgs :
          Begin("listar_blocos_suporte",
                [tag_atributo |-> tag_atributo, prefixo_bloco |-> prefixo_bloco],
                "list", <<>>)
    /\ UNCHANGED repoVars

\* one invocation of collect_blocks under execute_with_retry, and the return
\* of listar_blocos_suporte when it was the last, lines 205-302
ListarAttempt ==
    /\ c_pc = "list"
    /\ \E p \in FaultPlans(drawing, {"Item"}) :
          LET c == CollectBlocks(drawing, c_args, p)
          IN  /\ c_skipped' = Skipped(p, c.met)
              /\ RetryTurn("Listar blocos de suporte", c.out,
                           IF c.out.kind = "return"
                           THEN ReturnedValue("listar_blocos_suporte", c.out.value)
                           ELSE [op |-> "listar_blocos_suporte", ok |-> FALSE,
                                 msg |-> "Erro ao listar blocos: " \o Raised(c.out).value,
                                 value |-> <<>>])
    /\ RetryFrame
    /\ UNCHANGED <<drawing, repoVars>>

(***************************************************************************)
(* obter_propriedades_bloco, lines 304-358                                 *)
(***************************************************************************)
\* lines 332-345: the dictionary entry of a dynamic property
PropEntry(prop) ==
    [nome |-> prop.PropertyName, valor |-> prop.Value, show |-> prop.Show,
     readonly |-> ~prop.ReadOnly, bounded |-> prop.bounded,
     min |-> prop.ValueMinimum, max |-> prop.ValueMaximum]

\* a get_props that keeps every property
KeptProperty_Every(prop) == TRUE

\* line 333: if dyn_prop.PropertyName != "Origin"
KeptProperty(prop) == prop.PropertyName # "Origin"

\* get_props from entity i on, lines 325-351
RECURSIVE GetPropsFrom(_, _, _, _)
GetPropsFrom(d, i, a, p) ==
    IF i > Len(d) THEN [result |-> <<>>, met |-> FALSE]
    ELSE IF p.at = "Item" /\ p.entity = i
    THEN [GetPropsFrom(d, i + 1, a, p) EXCEPT !.met = TRUE]
    ELSE IF /\ d[i].EntityName = "AcDbBlockReference"
            /\ d[i].Handle = a.handle
            /\ d[i].IsDynamicBlock
    THEN [result |-> [j \in DOMAIN SelectSeq(d[i].props, KeptProperty) |->
                        PropEntry(SelectSeq(d[i].props, KeptProperty)[j])],
          met |-> FALSE]
    ELSE GetPropsFrom(d, i + 1, a, p)

\* get_props, lines 322-351
GetProps(d, a, p) ==
    IF ~ModelAnswers THEN [out |-> Unanswered, met |-> FALSE]
    ELSE IF p.at = "Count" THEN [out |-> ComError(p.code), met |-> FALSE]
    ELSE LET g == GetPropsFrom(d, 1, a, p)
         IN  [out |-> Returns(g.result), met |-> g.met]

\* obter_propriedades_bloco is called by the connector's user
ObterStart ==
    /\ RepoIdle
    /\ u_calls < MaxCalls
    /\ u_calls' = u_calls + 1
    /\ \E handle \in HandleArgs :
          Begin("obter_propriedades_bloco", [handle |-> handle], "props", <<>>)
    /\ UNCHANGED repoVars

\* one invocation of get_props under execute_with_retry, and the return of
\* obter_propriedades_bloco when it was the last, lines 321-358
ObterAttempt ==
    /\ c_pc = "props"
    /\ \E p \in FaultPlans(drawing, {"Item"}) :
          LET g == GetProps(drawing, c_args, p)
          IN  /\ c_skipped' = Skipped(p, g.met)
              /\ RetryTurn("Obter propriedades do bloco " \o c_args.handle, g.out,
                           IF g.out.kind = "return"
                           THEN ReturnedValue("obter_propriedades_bloco", g.out.value)
                           ELSE [op |-> "obter_propriedades_bloco", ok |-> FALSE,
                                 msg |-> "Erro ao obter propriedades: "
                                            \o Raised(g.out).value,
                                 value |-> <<>>])
    /\ RetryFrame
    /\ UNCHANGED <<drawing, repoVars>>

(***************************************************************************)
(* SuporteRepository.listar_todos, lines 64-114 of core/repository.py      *)
(***************************************************************************)
\* lines 95-98: only the values of the properties are kept
Valores(propriedades_raw) ==
    [j \in DOMAIN propriedades_raw |->
        <<propriedades_raw[j].nome, propriedades_raw[j].valor>>]

\* lines 100-109
SuporteData(bloco, propriedades) ==
    [tag |-> bloco.tag, tipo |-> bloco.tipo, posicao_x |-> bloco.posicao_x,
     posicao_y |-> bloco.posicao_y, posicao_z |-> bloco.posicao_z,
     handle |-> bloco.handle, propriedades |-> propriedades, layer |-> bloco.layer]

\* listar_blocos_suporte() as the repository calls it, line 85
DefaultListing == [tag_atributo |-> "POSICAO", prefixo_bloco |-> <<"S", "P", "_">>]

\* listar_todos up to its call of the connector, lines 74-85
RepoListarTodos ==
    /\ r_pc = "idle"
    /\ c_pc = "idle"
    /\ u_calls < MaxCalls
    /\ u_calls' = u_calls + 1
    /\ r_before' = Len(r_cache)
    /\ \E forcar_recarga \in BOOLEAN :
          IF ~is_connected \/ (~r_cache_dirty /\ ~forcar_recarga)
          THEN UNCHANGED <<connVars, c_attempt, g_error_log, c_skipped, serverVars,
                           workerVars, handlerVars, toolVars, staticVars, r_pc>>  \* lines 78, 82
          ELSE /\ Begin("listar_blocos_suporte", DefaultListing, "list", <<>>)
               /\ r_pc' = "listing"
    /\ UNCHANGED <<r_cache, r_cache_dirty, r_blocos>>

\* listar_todos, lines 85-88: the connector has returned the blocos
RepoAfterListing ==
    /\ r_pc = "listing"
    /\ c_pc = "idle"
    /\ r_blocos' = c_ret.value
    /\ r_cache' = <<>>
    /\ r_pc' = "convert"
    /\ UNCHANGED <<r_cache_dirty, r_before, connVars, retryVars, serverVars,
                   workerVars, handlerVars, toolVars, staticVars>>

\* listar_todos, lines 89-114: the head of the loop over the blocos
RepoConvert ==
    /\ r_pc = "convert"
    /\ c_pc = "idle"
    /\ IF r_blocos = <<>>
       THEN /\ r_cache_dirty' = FALSE                                    \* line 112
            /\ r_pc' = "idle"
            /\ UNCHANGED <<r_cache, r_blocos, connVars, retryVars, serverVars,
                           workerVars, handlerVars, toolVars, staticVars>>
       ELSE IF Head(r_blocos).is_dynamic
       THEN /\ Begin("obter_propriedades_bloco", [handle |-> Head(r_blocos).handle],
                     "props", <<>>)                                      \* line 93
            /\ r_pc' = "loading"
            /\ UNCHANGED <<r_cache, r_cache_dirty, r_blocos, u_calls>>
       ELSE /\ r_cache' = Append(r_cache, SuporteData(Head(r_blocos), <<>>))
            /\ r_blocos' = Tail(r_blocos)
            /\ UNCHANGED <<r_cache_dirty, r_pc, connVars, retryVars, serverVars,
                           workerVars, handlerVars, toolVars, staticVars>>
    /\ UNCHANGED r_before

\* listar_todos, lines 93-110: the connector has returned the properties
RepoAfterProps ==
    /\ r_pc = "loading"
    /\ c_pc = "idle"
    /\ r_cache' = Append(r_cache, SuporteData(Head(r_blocos), Valores(c_ret.value)))
    /\ r_blocos' = Tail(r_blocos)
    /\ r_pc' = "convert"
    /\ UNCHANGED <<r_cache_dirty, r_before, connVars, retryVars, serverVars,
                   workerVars, handlerVars, toolVars, staticVars>>

(***************************************************************************)
(* SuporteRepository.atualizar_propriedade, lines 204-233 of               *)
(* core/repository.py.  propriedades is the dictionary of a SuporteData,   *)
(* as the sequence of its (name, value) items.                             *)
(***************************************************************************)
\* SuporteData.definir_propriedade, lines 56-64 of core/models.py:
\* self.propriedades[nome] = valor
DefinirPropriedade(suporte, nome, valor) ==
    LET props == suporte.propriedades
    IN  [suporte EXCEPT !.propriedades =
            IF \E j \in DOMAIN props : props[j][1] = nome
            THEN [j \in DOMAIN props |->
                    IF props[j][1] = nome THEN <<nome, valor>> ELSE props[j]]
            ELSE Append(props, <<nome, valor>>)]

\* a repository that writes to its cache whatever the connector answered
CacheAfter_Whatever(cache, sucesso, handle, propriedade, valor) ==
    [k \in DOMAIN cache |->
        IF cache[k].handle = handle
        THEN DefinirPropriedade(cache[k], propriedade, valor)
        ELSE cache[k]]

\* lines 226-231: the cache after the connector answered sucesso: the first
\* record with that handle has the property set
CacheAfter(cache, sucesso, handle, propriedade, valor) ==
    [k \in DOMAIN cache |->
        IF /\ sucesso
           /\ cache[k].handle = handle
           /\ \A j \in 1..(k - 1) : cache[j].handle # handle
        THEN DefinirPropriedade(cache[k], propriedade, valor)
        ELSE cache[k]]

\* atualizar_propriedade up to its call of the connector, lines 221-224
RepoAtualizar ==
    /\ r_pc = "idle"
    /\ c_pc = "idle"
    /\ u_calls < 1 + MaxCalls            \* the listing that loaded the cache is one call
    /\ u_calls' = u_calls + 1
    /\ r_before' = Len(r_cache)
    /\ \E handle \in HandleArgs, propriedade \in PropertyNames, valor \in NovoValores :
          IF ~is_connected
          THEN UNCHANGED <<connVars, c_attempt, g_error_log, c_skipped, serverVars,
                           workerVars, handlerVars, toolVars, staticVars, r_pc>>  \* line 222
          ELSE /\ AtualizarBegin(handle, propriedade, valor)
               /\ r_pc' = "writing"
    /\ UNCHANGED <<r_cache, r_cache_dirty, r_blocos>>

\* atualizar_propriedade, lines 224-233: the connector has returned
RepoAfterAtualizar ==
    /\ r_pc = "writing"
    /\ c_pc = "idle"
    /\ r_cache' = CacheAfter(r_cache, c_ret.ok, c_args.handle,
                             c_args.nome_propriedade, c_args.novo_valor)
    /\ r_pc' = "idle"
    /\ UNCHANGED <<r_cache_dirty, r_blocos, r_before, connVars, retryVars,
                   serverVars, workerVars, handlerVars, toolVars, staticVars>>

(***************************************************************************)
(* DXFConversionWorker (dxf-detalhamento-suportes.py, lines 78-271): the   *)
(* .dwg files of a folder exported to .dxf through the automation server.  *)
(* A file of the disk is its modification time and the existence,          *)
(* modification time and size of the .dxf beside it.                       *)
(***************************************************************************)
\* lines 227 and 236: a .dxf of more than 1000 bytes is taken as valid
MinViableSize == 1000
\* line 184
max_retries == 3

DwgFile(dxf_exists, dxf_mtime, dxf_size) ==
    [dwg_mtime |-> 2, dxf_exists |-> dxf_exists, dxf_mtime |-> dxf_mtime,
     dxf_size |-> dxf_size]
\* no .dxf; an older .dxf, short or long; a newer .dxf
DwgFiles ==
    { DwgFile(FALSE, 0, 0), DwgFile(TRUE, 1, 500), DwgFile(TRUE, 1, 2000),
      DwgFile(TRUE, 3, 2000) }
\* what DXFOUT may write: nothing, a short file, a long file
ExportSizes == {0, 500, 2000}
Folders == UNION {[1..n -> DwgFiles] : n \in 0..MaxFiles}

NoStats ==
    [total |-> 0, success |-> 0, errors |-> 0, skipped |-> 0, error_details |-> <<>>]

\* __init__, lines 88-92, before run; the user may have a document open
InitConversion ==
    /\ cv_pc = "start"
    /\ cv_is_cancelled = FALSE
    /\ cv_disk \in Folders
    /\ cv_docs \in {<<>>, <<"user">>}
    /\ cv_i = 0
    /\ cv_retry = 0
    /\ cv_stats = NoStats
    /\ cv_last_error = ""
    /\ cv_finished = <<>>
    /\ cv_cancelled = 0
    /\ cv_error = <<>>
    /\ cv_attempts = [f \in DOMAIN cv_disk |-> 0]
    /\ cv_pauses = [f \in DOMAIN cv_disk |-> 0]
    /\ cv_exported = [f \in DOMAIN cv_disk |-> <<>>]
    /\ cv_closed = <<>>

\* no DXFConversionWorker has been made
NoConversion ==
    /\ cv_pc = "none"
    /\ cv_is_cancelled = FALSE
    /\ cv_disk = <<>>
    /\ cv_docs = <<>>
    /\ cv_i = 0
    /\ cv_retry = 0
    /\ cv_stats = NoStats
    /\ cv_last_error = ""
    /\ cv_finished = <<>>
    /\ cv_cancelled = 0
    /\ cv_error = <<>>
    /\ cv_attempts = <<>>
    /\ cv_pauses = <<>>
    /\ cv_exported = <<>>
    /\ cv_closed = <<>>

\* cancel_processing, lines 94-96
ConvCancel ==
    /\ cv_pc \in {"start", "scan", "file", "attempt"}
    /\ cv_is_cancelled = FALSE
    /\ cv_is_cancelled' = TRUE
    /\ UNCHANGED <<cv_pc, cv_disk, cv_docs, cv_i, cv_retry, cv_stats, cv_last_error,
                   cv_finished, cv_cancelled, cv_error, cv_attempts, cv_pauses,
                   cv_exported, cv_closed>>
    /\ UNCHANGED <<workerVars, handlerVars, staticVars, connVars, retryVars,
                   serverVars, repoVars, windowVars, pureVars>>

\* the worker returns after emitting finished with new_stats, with text
\* emitted through error before it unless text is ""
ConvFinish(new_stats, text) ==
    /\ cv_pc' = "done"
    /\ cv_stats' = new_stats
    /\ cv_finished' = Append(cv_finished, new_stats)
    /\ cv_error' = IF text = "" THEN cv_error ELSE Append(cv_error, text)
    /\ UNCHANGED cv_cancelled

\* the worker returns after emitting cancelled, lines 162-165 and 189-191
ConvStop ==
    /\ cv_pc' = "done"
    /\ cv_cancelled' = cv_cancelled + 1
    /\ UNCHANGED <<cv_stats, cv_finished, cv_error>>

\* the for loop of line 161 goes on to the file after cv_i, and past the
\* last one to lines 266-267
ConvAdvance(new_stats) ==
    /\ cv_i' = cv_i + 1
    /\ cv_retry' = 0
    /\ IF cv_i = Len(cv_disk)
       THEN ConvFinish(new_stats, "")
       ELSE /\ cv_pc' = "file"
            /\ cv_stats' = new_stats
            /\ UNCHANGED <<cv_finished, cv_error, cv_cancelled>>

\* lines 113-125: the server is reached, or error and finished are emitted
ConvConnect ==
    /\ cv_pc = "start"
    /\ \E reached \in BOOLEAN :
          IF reached
          THEN /\ cv_pc' = "scan"
               /\ UNCHANGED <<cv_stats, cv_finished, cv_error, cv_cancelled>>
          ELSE ConvFinish(cv_stats, "Erro ao conectar com AutoCAD")
    /\ UNCHANGED <<cv_is_cancelled, cv_disk, cv_docs, cv_i, cv_retry, cv_last_error,
                   cv_attempts, cv_pauses, cv_exported, cv_closed>>
    /\ UNCHANGED <<workerVars, handlerVars, staticVars, connVars, retryVars,
                   serverVars, repoVars, windowVars, pureVars>>

\* lines 127-158: the folder is searched for .dwg files
ConvScan ==
    /\ cv_pc = "scan"
    /\ IF Len(cv_disk) = 0
       THEN /\ ConvFinish(cv_stats, "")
            /\ UNCHANGED cv_i
       ELSE /\ cv_pc' = "file"
            /\ cv_i' = 1
            /\ cv_stats' = [cv_stats EXCEPT !.total = Len(cv_disk)]
            /\ UNCHANGED <<cv_finished, cv_error, cv_cancelled>>
    /\ UNCHANGED <<cv_is_cancelled, cv_disk, cv_docs, cv_retry, cv_last_error,
                   cv_attempts, cv_pauses, cv_exported, cv_closed>>
    /\ UNCHANGED <<workerVars, handlerVars, staticVars, connVars, retryVars,
                   serverVars, repoVars, windowVars, pureVars>>

\* lines 171-174: the .dxf is there and newer than the .dwg
UpToDate(file) == file.dxf_exists /\ file.dxf_mtime > file.dwg_mtime

\* lines 161-186, the head of the loop body for file cv_i: the cancellation
\* test, then the test of the .dxf being up to date, whose getmtime calls are
\* outside the try of line 193 and fault into the handler of lines 269-271
ConvFile ==
    /\ cv_pc = "file"
    /\ IF cv_is_cancelled
       THEN /\ ConvStop
            /\ UNCHANGED <<cv_i, cv_retry>>
       ELSE \E stat_fault \in {FALSE, cv_disk[cv_i].dxf_exists} :
              IF stat_fault
              THEN /\ ConvFinish(cv_stats, "Erro geral")
                   /\ UNCHANGED <<cv_i, cv_retry>>
              ELSE IF UpToDate(cv_disk[cv_i])
                   THEN ConvAdvance([cv_stats EXCEPT !.skipped = @ + 1])
                   ELSE /\ cv_pc' = "attempt"
                        /\ cv_retry' = 0
                        /\ UNCHANGED <<cv_i, cv_stats, cv_finished, cv_error,
                                       cv_cancelled>>
    /\ cv_last_error' = IF cv_pc' = "attempt" THEN "" ELSE cv_last_error
    /\ UNCHANGED <<cv_is_cancelled, cv_disk, cv_docs, cv_attempts, cv_pauses,
                   cv_exported, cv_closed>>
    /\ UNCHANGED <<workerVars, handlerVars, staticVars, connVars, retryVars,
                   serverVars, repoVars, windowVars, pureVars>>

\* DXFOUT writes size bytes beside file (nothing for 0)
Exported(file, size) ==
    IF size = 0 THEN file
    ELSE [file EXCEPT !.dxf_exists = TRUE, !.dxf_mtime = 4, !.dxf_size = size]

\* line 236: os.path.exists(dxf_path) and os.path.getsize(dxf_path) > 1000
Verified(file) == file.dxf_exists /\ file.dxf_size > MinViableSize

\* lines 193-245, the try block of one attempt on file, with the documents
\* docs open: Open answers or faults, SendCommand answers (and DXFOUT writes
\* size bytes) or faults, Close answers or faults.  Gives the fault raised ("" for none),
\* the file, the documents open and the owners of the documents closed.
TryExport(file, docs, open_ok, send_ok, size, close_ok) ==
    IF ~open_ok
    THEN [raised |-> "Open", file |-> file, docs |-> docs, closed |-> <<>>]
    ELSE IF ~send_ok
    THEN [raised |-> "SendCommand", file |-> file,
          docs |-> Append(docs, "worker"), closed |-> <<>>]
    ELSE IF ~close_ok
    THEN [raised |-> "Close", file |-> Exported(file, size),
          docs |-> Append(docs, "worker"), closed |-> <<>>]
    ELSE [raised |-> IF Verified(Exported(file, size)) THEN ""
                     ELSE "Arquivo DXF nao foi criado ou esta vazio",
          file |-> Exported(file, size), docs |-> docs, closed |-> <<"worker">>]

\* lines 249-254: the active document is closed when there is one; a fault
\* of the close is swallowed
CloseActive(t, cleanup_ok) ==
    IF Len(t.docs) > 0 /\ cleanup_ok
    THEN [t EXCEPT !.docs = SubSeq(t.docs, 1, Len(t.docs) - 1),
                   !.closed = Append(t.closed, t.docs[Len(t.docs)])]
    ELSE t

\* lines 188-264, one turn of the retry loop for file cv_i, and the lines
\* after the loop when it was the last turn
ConvAttempt ==
    /\ cv_pc = "attempt"
    /\ IF cv_is_cancelled
       THEN /\ ConvStop
            /\ UNCHANGED <<cv_i, cv_retry, cv_disk, cv_docs, cv_last_error,
                           cv_attempts, cv_pauses, cv_exported, cv_closed>>
       ELSE \E open_ok, send_ok, close_ok, cleanup_ok \in BOOLEAN, size \in ExportSizes :
              LET t == TryExport(cv_disk[cv_i], cv_docs, open_ok, send_ok, size, close_ok)
                  u == IF t.raised = "" THEN t ELSE CloseActive(t, cleanup_ok)
                  wrote == open_ok /\ send_ok /\ size > 0
              IN  /\ open_ok \/ (send_ok /\ close_ok /\ size = 0)
                  /\ send_ok \/ (close_ok /\ size = 0)
                  /\ (t.raised = "" \/ Len(t.docs) = 0) => cleanup_ok
                  /\ cv_disk' = [cv_disk EXCEPT ![cv_i] = u.file]
                  /\ cv_docs' = u.docs
                  /\ cv_closed' = cv_closed \o u.closed
                  /\ cv_attempts' = [cv_attempts EXCEPT ![cv_i] = @ + 1]
                  /\ cv_exported' =
                        [cv_exported EXCEPT ![cv_i] = IF wrote THEN Append(@, size) ELSE @]
                  /\ IF t.raised = ""
                     THEN /\ ConvAdvance([cv_stats EXCEPT !.success = @ + 1])  \* lines 241-243
                          /\ UNCHANGED <<cv_last_error, cv_pauses>>
                     ELSE /\ cv_last_error' = t.raised                        \* line 248
                          /\ IF cv_retry < max_retries - 1
                             THEN /\ cv_pauses' = [cv_pauses EXCEPT ![cv_i] = @ + 1]  \* line 258
                                  /\ cv_retry' = cv_retry + 1
                                  /\ UNCHANGED <<cv_pc, cv_i, cv_stats, cv_finished,
                                                 cv_error, cv_cancelled>>
                             ELSE /\ ConvAdvance(                             \* lines 261-264
                                      [cv_stats EXCEPT
                                          !.errors = @ + 1,
                                          !.error_details =
                                              Append(@, <<cv_i, t.raised>>)])
                                  /\ UNCHANGED cv_pauses
    /\ UNCHANGED cv_is_cancelled
    /\ UNCHANGED <<workerVars, handlerVars, staticVars, connVars, retryVars,
                   serverVars, repoVars, windowVars, pureVars>>

(***************************************************************************)
(* MainWindow (gui/main_window.py) starting BatchEditWorker threads        *)
(* (workers/batch_edit_worker.py).  The handlers of the window run one at  *)
(* a time on the GUI thread; each worker runs on a thread of its own.      *)
(***************************************************************************)
\* MainWindow.__init__, line 39
\* self._load_worker = None, line 38 of the window
NoLoadWorker ==
    [running |-> FALSE, pc |-> "", cancelado |-> FALSE, total |-> 0, i |-> 0,
     emitted |-> <<>>]

InitWindow ==
    /\ mw_batch_worker = 0
    /\ mw_workers = <<>>
    /\ mw_warnings = 0
    /\ mw_requests = 0
    /\ mw_closed = FALSE
    /\ mw_load_worker = NoLoadWorker
    /\ mw_gui = ""

\* BatchEditWorker.__init__, configurar and start: lines 28-35, 37-57 of the
\* worker and 466-472 of the window
StartedWorker(total) ==
    [running |-> TRUE, total |-> total, i |-> 0, sucesso |-> 0, falhas |-> 0,
     detalhes |-> <<>>, cancelado |-> FALSE, emitted |-> ""]

\* a worker that keeps no record of a failed update
Recorded_SuccessesOnly(w, sucesso) ==
    IF sucesso
    THEN [w EXCEPT !.i = @ + 1, !.sucesso = @ + 1,
                   !.detalhes = Append(@, [suporte |-> w.i + 1, sucesso |-> TRUE])]
    ELSE [w EXCEPT !.i = @ + 1, !.falhas = @ + 1]

\* lines 98-111 of the worker: the statistics after atualizar_propriedade on
\* the next support, _suportes[i], answered (sucesso, mensagem)
Recorded(w, sucesso) ==
    [w EXCEPT !.i = @ + 1,
              !.sucesso = IF sucesso THEN @ + 1 ELSE @,
              !.falhas = IF sucesso THEN @ ELSE @ + 1,
              !.detalhes = Append(@, [suporte |-> w.i + 1, sucesso |-> sucesso])]

\* a window that starts a batch whatever the earlier one does
Busy_Never == FALSE

\* line 458: self._batch_worker and self._batch_worker.isRunning()
Busy == mw_batch_worker # 0 /\ mw_workers[mw_batch_worker].running

\* _executar_edicao_lote, lines 456-472, called with total suportes
ExecutarEdicaoLote ==
    /\ mw_gui = ""
    /\ ~mw_closed
    /\ mw_requests < MaxRequests
    /\ mw_requests' = mw_requests + 1
    /\ IF Busy
       THEN /\ mw_warnings' = mw_warnings + 1                      \* lines 459-460
            /\ UNCHANGED <<mw_batch_worker, mw_workers>>
       ELSE \E total \in 0..MaxSelected :
              /\ mw_workers' = Append(mw_workers, StartedWorker(total))
              /\ mw_batch_worker' = Len(mw_workers) + 1
              /\ UNCHANGED mw_warnings
    /\ UNCHANGED <<mw_closed, mw_load_worker, mw_gui>>
    /\ UNCHANGED <<workerVars, handlerVars, staticVars, connVars, retryVars,
                   serverVars, repoVars, convVars, pureVars>>

\* BatchEditWorker.run, lines 63-113 of the worker: one turn of the thread
\* of worker w, which edits the next support, or emits and ends
BatchTurn ==
    /\ \E w \in DOMAIN mw_workers :
          /\ mw_workers[w].running
          /\ \E sucesso \in BOOLEAN :
                mw_workers' =
                    [mw_workers EXCEPT ![w] =
                        IF @.total = 0
                        THEN [@ EXCEPT !.running = FALSE, !.emitted = "error"]
                        ELSE IF @.i < @.total /\ ~@.cancelado
                        THEN Recorded(@, sucesso)
                        ELSE [@ EXCEPT !.running = FALSE, !.emitted = "finished"]]
          /\ mw_workers' # mw_workers
    /\ UNCHANGED <<mw_batch_worker, mw_warnings, mw_requests, mw_closed,
                   mw_load_worker, mw_gui>>
    /\ UNCHANGED <<workerVars, handlerVars, staticVars, connVars, retryVars,
                   serverVars, repoVars, convVars, pureVars>>

\* lines 599-601 of the window, up to the call of wait: the batch worker
\* under way is asked to stop
BatchCancelled ==
    IF Busy THEN [mw_workers EXCEPT ![mw_batch_worker].cancelado = TRUE]
    ELSE mw_workers

\* closeEvent, lines 592-601 of the window: the load worker under way is
\* asked to stop and waited for, then the batch worker is asked to stop
CloseEvent ==
    /\ mw_gui = ""
    /\ ~mw_closed
    /\ mw_closed' = TRUE
    /\ IF mw_load_worker.running
       THEN /\ mw_load_worker' = [mw_load_worker EXCEPT !.cancelado = TRUE]
            /\ mw_gui' = "wait"
            /\ UNCHANGED mw_workers
       ELSE /\ mw_workers' = BatchCancelled
            /\ UNCHANGED <<mw_load_worker, mw_gui>>
    /\ UNCHANGED <<mw_batch_worker, mw_warnings, mw_requests>>
    /\ UNCHANGED <<workerVars, handlerVars, staticVars, connVars, retryVars,
                   serverVars, repoVars, convVars, pureVars>>

\* closeEvent, lines 597-601 of the window: wait() on the load worker has
\* returned, the batch worker under way is asked to stop
CloseWaited ==
    /\ mw_gui = "wait"
    /\ ~mw_load_worker.running
    /\ mw_gui' = ""
    /\ mw_workers' = BatchCancelled
    /\ UNCHANGED <<mw_batch_worker, mw_warnings, mw_requests, mw_closed,
                   mw_load_worker>>
    /\ UNCHANGED <<workerVars, handlerVars, staticVars, connVars, retryVars,
                   serverVars, repoVars, convVars, pureVars>>

\* LoadSuportesWorker.__init__, configurar and start: lines 29-35, 37-54 of
\* workers/autocad_worker.py and 312-318 of the window
StartedLoadWorker ==
    [running |-> TRUE, pc |-> "connect", cancelado |-> FALSE, total |-> 0,
     i |-> 0, emitted |-> <<>>]

\* _atualizar_dados, lines 299-318 of the window
AtualizarDados ==
    /\ mw_gui = ""
    /\ ~mw_closed
    /\ mw_requests < MaxRequests
    /\ mw_requests' = mw_requests + 1
    /\ mw_load_worker' =
          IF ~is_connected THEN mw_load_worker                     \* lines 301-303
          ELSE IF mw_load_worker.running THEN mw_load_worker       \* lines 305-306
          ELSE StartedLoadWorker
    /\ UNCHANGED <<mw_batch_worker, mw_workers, mw_warnings, mw_closed, mw_gui>>
    /\ UNCHANGED <<workerVars, handlerVars, staticVars, connVars, retryVars,
                   serverVars, repoVars, convVars, pureVars>>

\* the thread of a LoadSuportesWorker ends, having emitted signal (or none)
Ended(w, signal) ==
    [w EXCEPT !.running = FALSE, !.pc = "ended",
              !.emitted = IF signal = "" THEN @ ELSE Append(@, signal)]

\* LoadSuportesWorker.run, lines 59-134 of workers/autocad_worker.py: one
\* turn of the thread, up to its next call of the repository or its next
\* test of _cancelado.  conectar answers sucesso, listar_todos a list of
\* total supports.
LoadTurn ==
    /\ mw_load_worker.running
    /\ \E sucesso \in BOOLEAN, total \in 0..MaxSelected :
          LET w == mw_load_worker
          IN  mw_load_worker' =
                CASE w.pc = "connect" ->                            \* lines 69-78
                        IF ~is_connected /\ ~sucesso THEN Ended(w, "error")
                        ELSE [w EXCEPT !.pc = "listar"]
                  [] w.pc = "listar" ->                             \* lines 83-92
                        IF w.cancelado THEN Ended(w, "")
                        ELSE [w EXCEPT !.pc = "listed", !.total = total]
                  [] w.pc = "listed" ->                             \* lines 96-98
                        IF w.cancelado THEN Ended(w, "")
                        ELSE [w EXCEPT !.pc = "propriedades"]
                  [] w.pc = "propriedades" ->                       \* lines 101-122
                        IF w.i < w.total /\ ~w.cancelado
                        THEN [w EXCEPT !.i = @ + 1]
                        ELSE [w EXCEPT !.pc = "emit"]
                  [] w.pc = "emit" -> Ended(w, "finished")          \* lines 124-132
    /\ UNCHANGED <<mw_batch_worker, mw_workers, mw_warnings, mw_requests,
                   mw_closed, mw_gui>>
    /\ UNCHANGED <<workerVars, handlerVars, staticVars, connVars, retryVars,
                   serverVars, repoVars, convVars, pureVars>>

\* the methods of the repository the window calls from the GUI thread:
\* _on_zoom, line 394, and _on_valor_alterado, line 426
GuiCalls == {"zoom_para_suporte", "atualizar_propriedade"}

\* _on_zoom, lines 389-394, and _on_valor_alterado, lines 421-426, up to
\* their call of the repository
GuiCall ==
    /\ mw_gui = ""
    /\ ~mw_closed
    /\ mw_requests < MaxRequests
    /\ mw_requests' = mw_requests + 1
    /\ \E method \in GuiCalls :
          mw_gui' = IF is_connected THEN method ELSE ""
    /\ UNCHANGED <<mw_batch_worker, mw_workers, mw_warnings, mw_closed,
                   mw_load_worker>>
    /\ UNCHANGED <<workerVars, handlerVars, staticVars, connVars, retryVars,
                   serverVars, repoVars, convVars, pureVars>>

\* the repository answers the GUI thread: lines 395-398 and 428-433
GuiReturn ==
    /\ mw_gui \in GuiCalls
    /\ mw_gui' = ""
    /\ UNCHANGED <<mw_batch_worker, mw_workers, mw_warnings, mw_requests,
                   mw_closed, mw_load_worker>>
    /\ UNCHANGED <<workerVars, handlerVars, staticVars, connVars, retryVars,
                   serverVars, repoVars, convVars, pureVars>>

(***************************************************************************)
(* FiltroBusca.verificar (core/models.py, lines 119-227).  A value is a    *)
(* number, a text or None; a text is the sequence of its characters.       *)
(***************************************************************************)
Nenhum == [numeric |-> FALSE, n |-> -1]
FilterValues == {Num(n) : n \in 0..MaxNumber} \cup {Text}

\* str(valor) of a filter value, typed by the user: "1", "abc"
StrOfFilter(v) == IF v.numeric THEN <<ToString(v.n)>> ELSE <<"a", "b", "c">>
\* str(valor_alvo) of a property value, a float for a number: "1.0"
StrOfValue(v) == IF v.numeric THEN <<ToString(v.n), ".", "0">> ELSE <<"a", "b", "c">>

\* OPERADORES_TEXT and OPERADORES_NUM, lines 135-151 (labels without accents)
OPERADORES_TEXT ==
    [contem |-> "Contem", nao_contem |-> "Nao Contem", inicia_com |-> "Inicia Com",
     termina_com |-> "Termina Com", igual |-> "Igual", diferente |-> "Diferente"]
OPERADORES_NUM ==
    [igual |-> "Igual", maior |-> "Maior Que", menor |-> "Menor Que",
     maior_igual |-> "Maior ou Igual", menor_igual |-> "Menor ou Igual",
     entre |-> "Entre"]
Labels(ops) == {ops[k] : k \in DOMAIN ops}
Operadores ==
    DOMAIN OPERADORES_TEXT \cup DOMAIN OPERADORES_NUM
        \cup Labels(OPERADORES_TEXT) \cup Labels(OPERADORES_NUM)

\* the operator is key, or the label of key in ops
Is(operador, ops, key) == operador = key \/ operador = ops[key]

EndsWith(s, suffix) ==
    Len(suffix) <= Len(s) /\ SubSeq(s, Len(s) - Len(suffix) + 1, Len(s)) = suffix
In(sub, s) ==
    \E k \in 0..(Len(s) - Len(sub)) : SubSeq(s, k + 1, k + Len(sub)) = sub

\* _verificar_texto, lines 183-200 (the texts here are in lower case)
VerificarTexto(f, valor_alvo) ==
    LET valor_filtro == StrOfFilter(f.valor)
    IN  IF Is(f.operador, OPERADORES_TEXT, "contem") THEN In(valor_filtro, valor_alvo)
        ELSE IF Is(f.operador, OPERADORES_TEXT, "nao_contem") THEN ~In(valor_filtro, valor_alvo)
        ELSE IF Is(f.operador, OPERADORES_TEXT, "inicia_com") THEN StartsWith(valor_alvo, valor_filtro)
        ELSE IF Is(f.operador, OPERADORES_TEXT, "termina_com") THEN EndsWith(valor_alvo, valor_filtro)
        ELSE IF Is(f.operador, OPERADORES_TEXT, "igual") THEN valor_alvo = valor_filtro
        ELSE IF Is(f.operador, OPERADORES_TEXT, "diferente") THEN valor_alvo # valor_filtro
        ELSE FALSE

Min(a, b) == IF a <= b THEN a ELSE b
Max(a, b) == IF a >= b THEN a ELSE b

\* _verificar_numerico, lines 202-227; float() of a text raises ValueError
VerificarNumerico(f, valor_alvo) ==
    IF ~f.valor.numeric THEN FALSE
    ELSE IF Is(f.operador, OPERADORES_NUM, "igual") THEN valor_alvo = f.valor.n
    ELSE IF Is(f.operador, OPERADORES_NUM, "maior") THEN valor_alvo > f.valor.n
    ELSE IF Is(f.operador, OPERADORES_NUM, "menor") THEN valor_alvo < f.valor.n
    ELSE IF Is(f.operador, OPERADORES_NUM, "maior_igual") THEN valor_alvo >= f.valor.n
    ELSE IF Is(f.operador, OPERADORES_NUM, "menor_igual") THEN valor_alvo <= f.valor.n
    ELSE IF Is(f.operador, OPERADORES_NUM, "entre")
    THEN IF f.valor_secundario = Nenhum \/ ~f.valor_secundario.numeric THEN FALSE
         ELSE /\ Min(f.valor.n, f.valor_secundario.n) <= valor_alvo
              /\ valor_alvo <= Max(f.valor.n, f.valor_secundario.n)
    ELSE FALSE

\* line 178: self.operador in self.OPERADORES_NUM.values()
IsNumericOperator(operador) == operador \in Labels(OPERADORES_NUM)

\* verificar, lines 153-181
Verificar(f, suporte) ==
    IF f.campo = "tag" THEN VerificarTexto(f, suporte.tag)
    ELSE IF f.campo \in DOMAIN suporte.propriedades
    THEN LET valor_alvo == suporte.propriedades[f.campo]
         IN  IF valor_alvo.numeric /\ IsNumericOperator(f.operador)
             THEN VerificarNumerico(f, valor_alvo.n)
             ELSE VerificarTexto(f, StrOfValue(valor_alvo))
    ELSE FALSE

NotCalled == [done |-> FALSE, value |-> FALSE]

\* a filter and a support
InitFilter ==
    /\ fb_filtro \in [campo : {"tag", "Altura", "Nada"}, operador : Operadores,
                       valor : FilterValues, valor_secundario : FilterValues \cup {Nenhum}]
    /\ fb_suporte \in [tag : {<<"a", "b", "c">>}, propriedades : [{"Altura"} -> FilterValues]]
    /\ fb_result = NotCalled

NoFilter ==
    /\ fb_filtro = [campo |-> "", operador |-> "", valor |-> Nenhum,
                    valor_secundario |-> Nenhum]
    /\ fb_suporte = [tag |-> <<>>, propriedades |-> <<>>]
    /\ fb_result = NotCalled

\* filtro.verificar(suporte) is called
CallVerificar ==
    /\ ~fb_result.done
    /\ fb_result' = [done |-> TRUE, value |-> Verificar(fb_filtro, fb_suporte)]
    /\ UNCHANGED <<fb_filtro, fb_suporte, namesVars>>
    /\ UNCHANGED <<workerVars, handlerVars, staticVars, connVars, retryVars,
                   serverVars, repoVars, convVars, windowVars>>

(***************************************************************************)
(* The output file names of the rows of one run, lines 240-250 of the      *)
(* pipeline (and 470-482 of dxf-detalhamento-suportes.py, with ".dxf").    *)
(***************************************************************************)
NamedPosicoes == {"A", "A_2", "B"}

InitNames ==
    /\ nm_posicoes \in UNION {[1..n -> NamedPosicoes] : n \in 0..MaxNamed}
    /\ nm_counter = [p \in NamedPosicoes |-> 0]
    /\ nm_names = <<>>

NoNames ==
    /\ nm_posicoes = <<>>
    /\ nm_counter = <<>>
    /\ nm_names = <<>>

\* lines 240-250 for the next row
NameRow ==
    /\ Len(nm_names) < Len(nm_posicoes)
    /\ LET posicao == nm_posicoes[Len(nm_names) + 1]
       IN  /\ nm_counter' = [nm_counter EXCEPT ![posicao] = @ + 1]
           /\ nm_names' = Append(nm_names, OutputFilename(posicao, nm_counter[posicao]))
    /\ UNCHANGED <<nm_posicoes, filterVars>>
    /\ UNCHANGED <<workerVars, handlerVars, staticVars, connVars, retryVars,
                   serverVars, repoVars, convVars, windowVars>>

PureIdle == NoFilter /\ NoNames

\* the windows and sibling pipelines stay as constructed
ToolsIdle == NoConversion /\ InitWindow /\ PureIdle

\* the components that are not part of a specification stay as constructed
OthersIdle == StaticIdle /\ InitConnector /\ InitRepository /\ NoServer /\ ToolsIdle

\* one run of AutocadWorker
Init == InitWorker /\ InitHandlerIdle /\ OthersIdle
Next == WorkerStep \/ cancel_processing
Spec == Init /\ [][Next]_vars

\* one COMErrorHandler executing operations
InitRetry == NoWorker /\ InitHandlerIdle /\ OthersIdle
NextRetry == Execute \/ Attempt
SpecRetry == InitRetry /\ [][NextRetry]_vars

\* the two execute_with_retry of the repository, each called from a fresh
\* start: the one of utils step by step, the one of the pipeline call by call
InitExecutors == NoWorker /\ InitHandlerIdle /\ OthersIdle
NextExecutors ==
    \/ (s_calls = 0 /\ (Execute \/ Attempt))
    \/ (h_execs = 0 /\ StaticExecute)
SpecExecutors == InitExecutors /\ [][NextExecutors]_vars

\* the connector and the repository from their construction, with the user
\* starting and stopping the server and opening and closing documents
InitConnection == NoWorker /\ InitHandlerIdle /\ OthersIdle
NextConnection ==
    \/ ServerStart
    \/ ServerStop
    \/ DocOpen
    \/ DocClose
    \/ ConectarStart
    \/ ConectarPoll
    \/ ConectarBind
    \/ EnsureValid
    \/ Desconectar
    \/ RepoDesconectar
SpecConnection == InitConnection /\ [][NextConnection]_vars

\* the user has a drawing open in the server
ServerWithDrawing(drawings) ==
    /\ srv_running = TRUE
    /\ srv_gen = 1
    /\ srv_docs = 1
    /\ drawing \in drawings

\* the connector from its construction, its session set up and then dynamic
\* properties of the drawing the user has open updated
InitUpdate ==
    /\ NoWorker /\ InitHandlerIdle /\ StaticIdle /\ ToolsIdle
    /\ InitConnector /\ InitRepository
    /\ ServerWithDrawing(DynamicModelSpaces)
SessionSetUp ==
    \/ ConectarStart
    \/ ConectarPoll
    \/ ConectarBind
    \/ Desconectar
    \/ DocClose
NextUpdate ==
    \/ (u_calls = 0 /\ SessionSetUp)
    \/ AtualizarStart
    \/ AtualizarAttempt
SpecUpdate == InitUpdate /\ [][NextUpdate]_vars

\* the connector from its construction, its session set up and then the
\* support blocks of the drawing the user has open listed
InitListing ==
    /\ NoWorker /\ InitHandlerIdle /\ StaticIdle /\ ToolsIdle
    /\ InitConnector /\ InitRepository
    /\ ServerWithDrawing(ModelSpaces)
NextListing ==
    \/ (u_calls = 0 /\ SessionSetUp)
    \/ ListarStart
    \/ ListarAttempt
SpecListing == InitListing /\ [][NextListing]_vars

\* the connector from its construction, its session set up and then the
\* dynamic properties of one block of the drawing read
NextProperties ==
    \/ (u_calls = 0 /\ SessionSetUp)
    \/ ObterStart
    \/ ObterAttempt
SpecProperties == InitListing /\ [][NextProperties]_vars

\* one run of DXFConversionWorker on a folder, with the user cancelling it
InitConvert ==
    /\ NoWorker /\ InitHandlerIdle /\ StaticIdle
    /\ InitConnector /\ InitRepository /\ NoServer
    /\ InitConversion /\ InitWindow /\ PureIdle
NextConvert ==
    \/ ConvConnect
    \/ ConvScan
    \/ ConvFile
    \/ ConvAttempt
    \/ ConvCancel
SpecConvert == InitConvert /\ [][NextConvert]_vars

\* the window and the batch-edit workers it starts
InitBatchEdit ==
    /\ NoWorker /\ InitHandlerIdle /\ StaticIdle
    /\ InitConnector /\ InitRepository /\ NoServer
    /\ NoConversion /\ InitWindow /\ PureIdle
NextBatchEdit ==
    \/ ExecutarEdicaoLote
    \/ BatchTurn
    \/ CloseEvent
SpecBatchEdit == InitBatchEdit /\ [][NextBatchEdit]_vars

\* a session on a server with a document open: conectar() has succeeded at
\* once, no call has faulted since, and the connector's last method was
\* called with args, made the calls of trace and returned ret
Session(args, ret, trace, calls) ==
    /\ c_pc = "idle"
    /\ c_acad = 1
    /\ c_acad_doc = 1
    /\ c_acad_model = 1
    /\ c_is_initialized = TRUE
    /\ c_args = args
    /\ c_elapsed = 0
    /\ c_checked = -1
    /\ c_ret = ret
    /\ c_trace = trace
    /\ c_held = (calls > 0)
    /\ c_attempt = calls
    /\ g_error_log = <<>>
    /\ u_calls = calls
    /\ c_skipped = {}
    /\ srv_running = TRUE
    /\ srv_gen = 1
    /\ srv_docs = 1

\* conectar() has succeeded
ConnectedSession ==
    Session(NoArgs, Returned("conectar", TRUE, ""),
            <<Called("GetActiveObject", TRUE)>>
                \o CallsUpTo(BindCalls, Len(BindCalls), FALSE), 0)

\* the window of a connected session, the workers it starts and the calls
\* it makes from the GUI thread
InitWindowSession ==
    /\ NoWorker /\ InitHandlerIdle /\ StaticIdle
    /\ ConnectedSession /\ drawing = <<>> /\ InitRepository
    /\ NoConversion /\ InitWindow /\ PureIdle
NextWindow ==
    \/ AtualizarDados
    \/ LoadTurn
    \/ ExecutarEdicaoLote
    \/ BatchTurn
    \/ GuiCall
    \/ GuiReturn
    \/ CloseEvent
    \/ CloseWaited
SpecWindow == InitWindowSession /\ [][NextWindow]_vars

\* the cache listar_todos leaves when no call of it faults: one record for
\* each support block of the drawing d, with the values of its properties
ListedCache(d) ==
    LET blocos == CollectFrom(d, 1, DefaultListing, NoFault).result
    IN  [k \in DOMAIN blocos |->
            SuporteData(blocos[k],
                        IF blocos[k].is_dynamic
                        THEN Valores(GetPropsFrom(d, 1, [handle |-> blocos[k].handle],
                                                  NoFault).result)
                        ELSE <<>>)]

\* the arguments and the answer of the last method of the connector that
\* listar_todos calls on the drawing d
LastOfListing(d) ==
    LET blocos == CollectFrom(d, 1, DefaultListing, NoFault).result
        dynamic == SelectSeq(blocos, LAMBDA b : b.is_dynamic)
        last == [handle |-> dynamic[Len(dynamic)].handle]
    IN  IF dynamic = <<>>
        THEN [args |-> DefaultListing,
              ret |-> ReturnedValue("listar_blocos_suporte", blocos)]
        ELSE [args |-> last,
              ret |-> ReturnedValue("obter_propriedades_bloco",
                                    GetPropsFrom(d, 1, last, NoFault).result)]

\* a connected session whose repository has listed the drawing the user has
\* open, and then properties written through the repository
InitWrite ==
    /\ NoWorker /\ InitHandlerIdle /\ StaticIdle /\ ToolsIdle
    /\ drawing \in DynamicModelSpaces
    /\ Session(LastOfListing(drawing).args, LastOfListing(drawing).ret,
               <<Called("Version", TRUE)>>, 1)
    /\ r_cache = ListedCache(drawing)
    /\ r_cache_dirty = FALSE
    /\ r_pc = "idle"
    /\ r_blocos = <<>>
    /\ r_before = 0
NextWrite ==
    \/ RepoAtualizar
    \/ AtualizarAttempt
    \/ RepoAfterAtualizar
SpecWrite == InitWrite /\ [][NextWrite]_vars

\* FiltroBusca.verificar applied to one filter and one support
InitVerificar ==
    /\ NoWorker /\ InitHandlerIdle /\ StaticIdle
    /\ InitConnector /\ InitRepository /\ NoServer
    /\ NoConversion /\ InitWindow /\ InitFilter /\ NoNames
NextVerificar == CallVerificar
SpecVerificar == InitVerificar /\ [][NextVerificar]_vars

\* the output file names of the rows of one run, computed row by row
InitNaming ==
    /\ NoWorker /\ InitHandlerIdle /\ StaticIdle
    /\ InitConnector /\ InitRepository /\ NoServer
    /\ NoConversion /\ InitWindow /\ NoFilter /\ InitNames
NextNaming == NameRow
SpecNaming == InitNaming /\ [][NextNaming]_vars

\* the repository from its construction, its session set up, the supports
\* loaded into its cache and the session ended
NextRepository ==
    \/ (u_calls = 0 /\ SessionSetUp)
    \/ RepoListarTodos
    \/ ListarAttempt
    \/ RepoAfterListing
    \/ RepoConvert
    \/ ObterAttempt
    \/ RepoAfterProps
    \/ RepoDesconectar
SpecRepository == InitListing /\ [][NextRepository]_vars

(***************************************************************************)
(* Properties of AutocadWorker.run (Spec).                                 *)
(***************************************************************************)
RunPositions ==
    {"start", "connect", "group_head", "open_template", "row_head", "row_open",
     "fill", "save", "group_except", "outer_except", "done"}

\* finished and cancelled emissions so far
TerminalSignals == Len(finished) + cancelled

\* a bound on the steps the run still makes: per group a budget that covers
\* four steps for each of its rows, the open and the close
GroupBudget == 4 * Len(df) + 8
Variant ==
    LET base == (Len(Grouped) - gi) * GroupBudget + 1
    IN  CASE pc = "start" -> Len(Grouped) * GroupBudget + 3
          [] pc = "connect" -> Len(Grouped) * GroupBudget + 2
          [] pc = "group_head" -> base + GroupBudget
          [] pc = "open_template" -> base + 4 * Len(df) + 3
          [] pc = "row_head" -> base + 4 * (Len(df) - idx) + 2
          [] pc = "row_open" -> base + 4 * (Len(df) - idx) + 1
          [] pc = "fill" -> base + 4 * (Len(df) - idx)
          [] pc = "save" -> base + 4 * (Len(df) - idx) - 1
          [] pc = "group_except" -> base + 1
          [] pc = "outer_except" -> 1
          [] OTHER -> 0

\* C1: every run of AutocadWorker.run ends, and emits exactly one of finished
\* and cancelled, exactly once and never both, also when the spreadsheet
\* cannot be read or an exception leaves the group loop: the signals emitted
\* are none while the run is under way and one once it has ended, a run under
\* way can always step, an ended run does nothing more, and every step of
\* the run decreases a natural number
C1_ExactlyOneTerminalSignal ==
    /\ [](/\ pc \in RunPositions
          /\ TerminalSignals = (IF pc = "done" THEN 1 ELSE 0)
          /\ Variant >= 0
          /\ (pc # "done" => ENABLED WorkerStep)
          /\ (pc = "done" => ~ENABLED Next))
    /\ [][is_cancelled' = is_cancelled => Variant' < Variant]_vars

\* the spreadsheet could not be read: the run ended with finished alone,
\* though a cancellation had been requested
C1_Witness ==
    /\ pc = "done"
    /\ ~excel.readable
    /\ is_cancelled
    /\ Len(finished) = 1
    /\ finished[1].errors = 1
    /\ cancelled = 0

\* the group loop ran to its end and finished was emitted after it
NormalCompletion == pc = "done" /\ Len(finished) = 1 /\ error = <<>>

\* C2 as stated: when a group fails, only its rows that have no outcome yet
\* are counted as errors, so that in the statistics emitted with finished
\* after the rows were processed success + template_not_found + no_attributes
\* + errors = total
C2_CategoriesSumToTotal ==
    NormalCompletion =>
        /\ finished[1].total = Len(df)
        /\ \A i \in DOMAIN df : Cardinality(fate[i]) = 1
        /\ finished[1].success + finished[1].template_not_found
               + finished[1].no_attributes + finished[1].errors
             = finished[1].total

\* the rows started so far with POSICAO p in the groups whose status is in S
StartedIn(p, S) ==
    Cardinality({n \in DOMAIN current_file :
                    /\ current_file[n].posicao = p
                    /\ group_status[current_file[n].tipo_suporte] \in S})
GroupIndex(t) == CHOOSE k \in 1..Len(Grouped) : Grouped[k] = t

\* what C3 says besides the state later groups see: a failed group is left
\* behind with its documents closed as far as the server closes them, the
\* loop goes on to the groups after it, and a run that opened a template and
\* was not cancelled ends with finished after every group was handled
GroupFailureIsolated ==
    /\ \A t \in Tipos :
          group_status[t] = "failed" =>
              /\ gi > GroupIndex(t)
              /\ pc \notin {"outer_except", "start", "connect"}
              /\ \A i \in Range(GroupDf(t)) : "errors" \in fate[i]
    /\ (pc \in {"group_head", "done"} /\ ~close_faulted) => open_docs = UserDocs
    /\ (pc = "done" /\ "Open" \in server_calls /\ ~is_cancelled) =>
           /\ NormalCompletion
           /\ cancelled = 0
           /\ finished[1].total = Len(df)
           /\ \A t \in Range(Grouped) :
                  /\ group_status[t] \in {"missing", "closed", "failed"}
                  /\ group_status[t] # "failed" =>
                         \A i \in Range(GroupDf(t)) : Cardinality(fate[i]) = 1

\* C3 as stated: after a fault in one group its documents are closed
\* best-effort, every later group is processed exactly as if the failed group
\* had not existed (the duplicate counter the later rows read holds nothing of
\* the failed group), and the run ends with finished if not cancelled
C3_AsIfGroupHadNotExisted ==
    /\ GroupFailureIsolated
    /\ \A p \in Posicoes :
          position_counter[p] = StartedIn(p, {"open", "closed"})

\* C3, as the code has it: after a fault in one group its documents are
\* closed best-effort, every later group is still processed and the run ends
\* with finished if not cancelled; the duplicate counter is kept for the whole
\* run, so it still counts the rows of the failed group that were started
\* before the fault, and a later row with the same POSICAO gets the next
\* suffix
C3_LaterGroupsStillProcessed ==
    /\ GroupFailureIsolated
    /\ \A p \in Posicoes :
          position_counter[p] = StartedIn(p, {"open", "closed", "failed"})

\* group X failed after its row A was started; the later group Y was
\* processed, and its row A was written as A_2.dwg
C3_Witness ==
    /\ NormalCompletion
    /\ ~is_cancelled
    /\ group_status["X"] = "failed"
    /\ group_status["Y"] = "closed"
    /\ written = <<"A_2.dwg">>
    /\ \E n \in DOMAIN current_file :
          /\ current_file[n].tipo_suporte = "Y"
          /\ current_file[n].output_filename = "A_2.dwg"
          /\ fate[current_file[n].row] = {"success"}

\* a group that was not reached: no row of it was started or counted, no
\* server call was made for it
Untouched(t) ==
    /\ group_calls[t] = {}
    /\ \A i \in Range(GroupDf(t)) : fate[i] = {}
    /\ \A n \in DOMAIN current_file : current_file[n].tipo_suporte # t

\* C4: once the cancellation flag is set, no further row is started; the
\* next checkpoint (before a group, before a row) closes the open template
\* best-effort, emits cancelled and ends the run, which then opens, fills and
\* saves nothing more; a flag set when group 1 of 3 has completed leaves the
\* rows of groups 2 and 3 unprocessed and unwritten
C4_CancellationStopsTheRun ==
    /\ [](/\ \A t \in Tipos : group_status[t] = "pending" => Untouched(t)
          /\ (cancelled >= 1 => pc = "done" /\ is_cancelled)
          /\ (pc = "done" => ~ENABLED Next))
    /\ [][is_cancelled =>
            /\ current_file' = current_file
            /\ (written' # written => pc = "save")
            /\ (pc = "group_head" /\ gi <= Len(Grouped)) =>
                   /\ pc' = "done"
                   /\ cancelled' = cancelled + 1
                   /\ UNCHANGED <<finished, stats, group_status, fate, written,
                                  open_docs, server_calls, group_calls>>
            /\ (pc = "row_head" /\ idx < Len(GroupDf(tipo_suporte))) =>
                   /\ pc' = "done"
                   /\ cancelled' = cancelled + 1
                   /\ (template_doc \notin open_docs' \/ close_faulted')
                   /\ UNCHANGED <<finished, stats, group_status, fate, written>>
       ]_vars

\* cancelled was emitted at the checkpoint before group 2 of 3: group 1 was
\* written, groups 2 and 3 were left alone
C4_Witness ==
    /\ pc = "done"
    /\ cancelled = 1
    /\ Len(Grouped) = 3
    /\ group_status["X"] = "closed"
    /\ written # <<>>
    /\ group_status["Y"] = "pending"
    /\ group_status["Z"] = "pending"
    /\ Len(current_file) < Len(df)

\* the rows started before the n-th that have its POSICAO, in any group
EarlierSame(n) ==
    Cardinality({m \in 1..(n - 1) : current_file[m].posicao = current_file[n].posicao})
\* <POSICAO>.dwg for k = 1, <POSICAO>_k.dwg for k >= 2
NameOfKth(posicao, k) ==
    IF k = 1 THEN posicao \o ".dwg" ELSE posicao \o "_" \o ToString(k) \o ".dwg"
DuplicateRows == {n \in DOMAIN current_file : EarlierSame(n) >= 1}
FailedGroups == {t \in Tipos : group_status[t] = "failed"}
RECURSIVE RowsOf(_)
RowsOf(S) ==
    IF S = {} THEN 0
    ELSE LET t == CHOOSE x \in S : TRUE IN Len(GroupDf(t)) + RowsOf(S \ {t})

\* C5: the first row processed with a POSICAO is named <POSICAO>.dwg, the
\* k-th (k >= 2) <POSICAO>_k.dwg, counting over all the groups of the run;
\* duplicates (and its detail list) grows by exactly 1 for each row with
\* k >= 2; such a row adds nothing to errors, which holds the rows of the
\* failed groups only, and it can still be saved and counted as a success
C5_DuplicateSuffix ==
    /\ \A n \in DOMAIN current_file :
          current_file[n].output_filename
              = NameOfKth(current_file[n].posicao, EarlierSame(n) + 1)
    /\ stats.duplicates = Cardinality(DuplicateRows)
    /\ Len(stats.duplicate_details) = Cardinality(DuplicateRows)
    /\ (current_file # <<>> => stats.errors = RowsOf(FailedGroups))
    /\ \A k \in DOMAIN written :
          \E n \in DOMAIN current_file : current_file[n].output_filename = written[k]
    /\ (pc = "done" /\ Len(finished) = 1 /\ current_file # <<>>) =>
           finished[1].duplicates = Cardinality(DuplicateRows)

\* three rows with POSICAO A in two groups: A.dwg, A_2.dwg and A_3.dwg were
\* written, the third by a later group, and all three rows succeeded
C5_Witness ==
    /\ NormalCompletion
    /\ written = <<"A.dwg", "A_2.dwg", "A_3.dwg">>
    /\ current_file[2].tipo_suporte # current_file[3].tipo_suporte
    /\ finished[1].duplicates = 2
    /\ finished[1].success = 3
    /\ finished[1].errors = 0

MissingGroups == {t \in Tipos : group_status[t] = "missing"}

\* C6: when the template file of a group does not exist, every row of the
\* group is counted in template_not_found (and in nothing else), with one
\* detail entry per row, no call is made to the server for the group, and the
\* run goes on with the next group
C6_TemplateMissing ==
    /\ \A t \in MissingGroups :
          /\ group_calls[t] = {}
          /\ gi > GroupIndex(t)
          /\ pc \in {"group_head", "open_template", "row_head", "row_open", "fill",
                      "save", "group_except", "done"}
          /\ \A i \in Range(GroupDf(t)) :
                /\ fate[i] = {"template_not_found"}
                /\ \E k \in DOMAIN stats.not_found_details :
                      stats.not_found_details[k]
                          = df[i].POSICAO \o " (Tipo: " \o t \o ")"
                /\ \A n \in DOMAIN current_file : current_file[n].row # i
    /\ (error = <<>> =>
           /\ stats.template_not_found = RowsOf(MissingGroups)
           /\ Len(stats.not_found_details) = RowsOf(MissingGroups))
    /\ (MissingGroups # {} /\ pc = "done" /\ ~is_cancelled) =>
           /\ NormalCompletion
           /\ \A t \in Range(Grouped) : group_status[t] # "pending"

\* the template of the first group (two rows) was missing: the server was not
\* called for it, and the next group was opened and written
C6_Witness ==
    /\ NormalCompletion
    /\ group_status["X"] = "missing"
    /\ Len(GroupDf("X")) = 2
    /\ finished[1].template_not_found = 2
    /\ group_status["Y"] = "closed"
    /\ finished[1].success = 1
    /\ "SaveAs" \in group_calls["Y"]

\* C7 as stated: a row whose template holds no attribute-bearing block, or
\* no attribute tag of the mapping, is counted in no_attributes with a detail
\* entry, errors is not incremented for it, and no output file is written
\* for it
C7_NoAttributesIsNotAnError ==
    \A i \in DOMAIN df :
        "no_attributes" \in fate[i] =>
            /\ fate[i] = {"no_attributes"}
            /\ \E k \in DOMAIN stats.no_attributes_details :
                  stats.no_attributes_details[k]
                      = df[i].POSICAO \o " (Tipo: " \o df[i].TipoSuporte \o ")"
            /\ \A n \in DOMAIN current_file :
                  current_file[n].row = i =>
                      current_file[n].output_filename \notin Range(written)

\* the headers of the spreadsheet with Name renamed to TipoSuporte
HeadersAfterRename ==
    {IF c = "Name" THEN "TipoSuporte" ELSE c : c \in excel.columns}
LackingColumns == SelectSeq(REQUIRED_COLUMNS, LAMBDA c : c \notin HeadersAfterRename)

\* C8: when the spreadsheet lacks a required column (after the rename of
\* Name), the run reports the missing columns through error and ends with
\* finished, emitted once with errors = 1 and total = 0, without any call to
\* the server (no connect, no document opened); when no column is lacking
\* the run goes on to connect
C8_MissingColumns ==
    (excel.readable /\ pc # "start") =>
        IF LackingColumns # <<>>
        THEN /\ pc = "done"
             /\ server_calls = {}
             /\ open_docs = UserDocs
             /\ written = <<>>
             /\ cancelled = 0
             /\ error = <<"Colunas faltando no Excel: " \o Join(LackingColumns, ", ")>>
             /\ Len(finished) = 1
             /\ finished[1].errors = 1
             /\ finished[1].total = 0
             /\ finished[1].success = 0
             /\ Len(finished[1].error_details) = 1
        ELSE pc = "connect" \/ "Dispatch" \in server_calls

\* a spreadsheet with rows but without the POSICAO column: the run has ended
C8_Witness ==
    /\ pc = "done"
    /\ excel.readable
    /\ LackingColumns = <<"POSICAO">>
    /\ df # <<>>
    /\ Len(finished) = 1
    /\ server_calls = {}

(***************************************************************************)
(* Properties of COMErrorHandler.execute_with_retry (SpecRetry).           *)
(***************************************************************************)
\* the two hresults the handler documents as transient
TransientFault(o) ==
    o \in {ComError(RPC_E_CALL_REJECTED), ComError(RPC_E_SERVERCALL_RETRYLATER)}
\* the entries the running call appended to the log
NewEntries == SubSeq(h_error_log, h_log_before + 1, Len(h_error_log))

\* a call with retries = 3 whose operation faulted transiently at attempts 1
\* and 2 and returned at attempt 3
TwoTransientThenSuccess ==
    /\ h_retries = 3
    /\ Len(h_outcomes) = 3
    /\ TransientFault(h_outcomes[1])
    /\ TransientFault(h_outcomes[2])
    /\ h_outcomes[3].kind = "return"

\* C9 as stated: with max_attempts = 3, after transient faults at attempts 1
\* and 2 and a success at attempt 3 the operation's value is returned and the
\* log holds exactly 3 entries (one per attempt)
C9_LogHoldsEveryAttempt ==
    TwoTransientThenSuccess =>
        /\ h_pc = "idle"
        /\ h_result = [kind |-> "return", value |-> h_outcomes[3].value]
        /\ Len(NewEntries) = 3
        /\ (h_execs = 1 => Len(h_error_log) = 3)

\* C9, as the code has it: with max_attempts = 3, after transient faults at
\* attempts 1 and 2 and a success at attempt 3 the operation's value is
\* returned, 0.5 s and 1.0 s were slept, and the log holds exactly 2 entries,
\* the failed attempts 1 and 2 with their faults: a failed attempt is logged,
\* a successful one is not
C9_LogHoldsFailedAttempts ==
    /\ Len(NewEntries)
           = Cardinality({k \in DOMAIN h_outcomes : h_outcomes[k].kind # "return"})
    /\ TwoTransientThenSuccess =>
           /\ h_pc = "idle"
           /\ h_result = [kind |-> "return", value |-> h_outcomes[3].value]
           /\ h_slept = <<500, 1000>>
           /\ NewEntries = <<COMErrorInfo(1, h_operation_name, h_outcomes[1]),
                             COMErrorInfo(2, h_operation_name, h_outcomes[2])>>
           /\ (h_execs = 1 => Len(h_error_log) = 2)

\* a fresh handler has returned the value of the third attempt
C9_Witness ==
    /\ TwoTransientThenSuccess
    /\ h_execs = 1
    /\ h_result = [kind |-> "return", value |-> "v1"]
    /\ h_outcomes[1] # h_outcomes[2]

\* C10: when the first attempt raises a fault that is not transient, the
\* operation is invoked exactly once, nothing is slept, the same fault is
\* raised again, and the call has logged 1 entry (the whole log of a fresh
\* handler)
C10_NonTransientRaisedAtOnce ==
    (/\ h_outcomes # <<>>
     /\ h_outcomes[1].kind # "return"
     /\ ~TransientFault(h_outcomes[1]))
        => /\ h_pc = "idle"
           /\ Len(h_outcomes) = 1
           /\ h_slept = <<>>
           /\ h_result = [kind |-> "raise", value |-> h_outcomes[1].value]
           /\ NewEntries = <<COMErrorInfo(1, h_operation_name, h_outcomes[1])>>
           /\ (h_execs = 1 => Len(h_error_log) = 1)

\* a fresh handler with 3 attempts allowed has raised E_FAIL again
C10_Witness ==
    /\ h_execs = 1
    /\ h_retries = 3
    /\ h_outcomes = <<ComError(E_FAIL)>>
    /\ h_result = [kind |-> "raise", value |-> E_FAIL]

(***************************************************************************)
(* Properties of the two execute_with_retry (SpecExecutors).               *)
(***************************************************************************)
\* the answers the server documents as transient: busy, retry later
TransientAnswer(a) == a \in {RPC_E_CALL_REJECTED, RPC_E_SERVERCALL_RETRYLATER}
\* the sleeps due for an operation answering outs with n attempts allowed:
\* one after each attempt k < n that ends a run of transient faults
SleepsDue(outs, n) ==
    Cardinality({k \in 1..(n - 1) :
                    k <= Len(outs) /\ \A j \in 1..k : TransientAnswer(outs[j])})
Backoff(base, m) == [k \in 1..m |-> base * k]

\* the claim of C11 for the handler of utils: at most h_retries invocations,
\* each but the last a transient fault, a sleep of base_delay * k after each
\* transient fault at attempt k < h_retries, and a call under way has an
\* attempt left to make
BoundedRetryUtils ==
    /\ Len(h_outcomes) <= h_retries
    /\ \A k \in 1..(Len(h_outcomes) - 1) : TransientFault(h_outcomes[k])
    /\ h_slept = Backoff(500,
                         Cardinality({k \in DOMAIN h_outcomes :
                                         TransientFault(h_outcomes[k]) /\ k < h_retries}))
    /\ (h_pc = "attempt" =>
           /\ h_attempt = Len(h_outcomes) + 1
           /\ h_attempt <= h_retries
           /\ ENABLED Attempt)
    /\ (h_pc = "idle" /\ h_outcomes # <<>> /\ TransientFault(h_outcomes[Len(h_outcomes)])) =>
           Len(h_outcomes) = h_retries

\* the claim of C11 for the copy of the pipeline
BoundedRetryPipeline ==
    s_calls > 0 =>
        /\ s_result.calls <= s_max_retries
        /\ \A k \in 1..(s_result.calls - 1) : TransientAnswer(s_outs[k])
        /\ s_result.calls = (IF s_max_retries = 0 THEN 0
                             ELSE SleepsDue(s_outs, s_max_retries) + 1)
        /\ s_result.slept = Backoff(500, SleepsDue(s_outs, s_max_retries))

\* C11 as stated, for both execute_with_retry: the operation is invoked at
\* most max_attempts times, never again after a success or a non-transient
\* fault, and base_delay * k is slept after the k-th attempt exactly when it
\* failed with a transient fault (busy or retry later) and k < max_attempts,
\* so the call terminates
C11_BoundedRetryWithBackoff == BoundedRetryUtils /\ BoundedRetryPipeline

\* a call whose operation faulted transiently at every one of its attempts
EveryAttemptTransient ==
    /\ h_pc = "idle"
    /\ h_retries >= 1
    /\ Len(h_outcomes) = h_retries
    /\ \A k \in DOMAIN h_outcomes : TransientFault(h_outcomes[k])

\* C12 as stated: when every one of the max_attempts attempts fails with a
\* transient fault, execute_with_retry raises the generic "failed after N
\* attempts" failure (wrapping the last fault)
C12_GenericFailureAfterExhaustion ==
    EveryAttemptTransient =>
        /\ h_result.kind = "raise"
        /\ h_result.value = "falhou apos tentativas"

\* C12, as the code has it: when every one of the max_attempts >= 1 attempts
\* fails with a transient fault, the last fault itself is raised again, after
\* max_attempts invocations, each logged, and max_attempts - 1 sleeps; the
\* generic failure is raised only by a call that is allowed no attempt, and
\* then no operation was invoked and no fault is there to wrap
C12_LastFaultRaisedAfterExhaustion ==
    /\ EveryAttemptTransient =>
           /\ h_result = [kind |-> "raise", value |-> h_outcomes[h_retries].value]
           /\ h_slept = Backoff(500, h_retries - 1)
           /\ Len(NewEntries) = h_retries
    /\ h_result.value = "falhou apos tentativas" =>
           /\ h_retries = 0
           /\ h_outcomes = <<>>
           /\ NewEntries = <<>>

\* three attempts, busy, busy, retry later: the retry-later fault was raised
C12_Witness ==
    /\ EveryAttemptTransient
    /\ h_retries = 3
    /\ h_outcomes[3] = ComError(RPC_E_SERVERCALL_RETRYLATER)
    /\ h_outcomes[1] = ComError(RPC_E_CALL_REJECTED)
    /\ h_result = [kind |-> "raise", value |-> RPC_E_SERVERCALL_RETRYLATER]

(***************************************************************************)
(* Properties of AutocadCOMConnector's session (SpecConnection).           *)
(***************************************************************************)
\* the method that returned last
Done(op) == c_pc = "idle" /\ c_ret.op = op

NoSession == c_acad = 0 /\ c_acad_doc = 0 /\ c_acad_model = 0

\* C15: whenever conectar returns connected=False (no server, no document
\* within the timeout, a fault while binding) the connector exposes no partial
\* session: the three handles are null and is_connected is false, also when
\* the connector held a session before the call
C15_FailedConnectLeavesNoSession ==
    (Done("conectar") /\ ~c_ret.ok) => (NoSession /\ ~is_connected)

\* C16: between the connector's methods, whatever sequence of conectar,
\* _ensure_valid_connection, desconectar and starts and stops of the server
\* went before, is_connected is true exactly when the three handles are all
\* non-null and the server answers the liveness probe
C16_ConnectedIffLiveSession ==
    c_pc = "idle" =>
        (is_connected <=>
            (c_acad # 0 /\ c_acad_doc # 0 /\ c_acad_model # 0 /\ Alive(c_acad)))

\* the calls of that name in the trace of the method that ran last
CallsOf(call) == {k \in DOMAIN c_trace : c_trace[k].call = call}

ProbeFaulted == c_trace # <<>> /\ c_trace[1] = Called("Version", FALSE)

\* what C17 says of the state in which _ensure_valid_connection returns
EnsureContract ==
    /\ ProbeFaulted =>
          /\ Cardinality(CallsOf("GetActiveObject")) = 1
          /\ CallsOf("Dispatch") = {}
          /\ Cardinality(CallsOf("Documents.Count")) <= 1
    /\ c_ret.ok =>
          /\ c_acad # 0 /\ c_acad_doc # 0 /\ c_acad_model # 0
          /\ Alive(c_acad)
          /\ srv_docs >= 1
    /\ ~c_ret.ok => NoSession

\* C17: when its probe faults, _ensure_valid_connection clears the handles and
\* makes exactly one attempt to attach to a running server, never launching
\* one and never waiting; it returns True only if the three handles are then
\* bound to a live server with at least one open document, and whenever it
\* returns False the three handles are null
C17_EnsureValidConnection == [][EnsureValid => EnsureContract']_vars

\* conectar attached first, and launched only after the attach had failed
AttachBeforeLaunch ==
    /\ c_trace # <<>>
    /\ c_trace[1].call = "GetActiveObject"
    /\ \A k \in CallsOf("Dispatch") : k = 2 /\ ~c_trace[1].ok

\* _wait_for_document leaves its loop for the binding only on a poll at which
\* the server reports a document
BoundAfterDocumentReported ==
    (c_pc = "wait" /\ c_pc' = "bind") => srv_docs >= 1

\* the poll that reported the document came before timeout_seg had elapsed
ReportedWithinTimeout == c_elapsed <= 2 * c_args.timeout_seg

\* the poll that reported the document was the first one, or followed a test
\* of the elapsed time that found timeout_seg not yet exceeded
ReportedAtPollAfterPassedTest == c_checked <= 2 * c_args.timeout_seg

\* C18 (as stated): conectar tries to attach first and launches only when the
\* attach failed; it returns connected=True only if it obtained a server
\* handle and, when esperar_documento is set, the server reported an open
\* document before timeout_seg elapsed; otherwise it returns connected=False
C18_ConnectedOnlyWithDocumentInTime ==
    /\ [](Done("conectar") =>
            /\ AttachBeforeLaunch
            /\ c_ret.ok =>
                  /\ c_acad # 0
                  /\ c_args.esperar_documento => ReportedWithinTimeout)
    /\ [][BoundAfterDocumentReported]_vars

\* C18 (amended): the same, except that the document may be reported at the
\* first poll made after timeout_seg elapsed: the count is read before the
\* elapsed time is tested, so the report need only follow a test that passed
C18_ConnectedOnlyWithDocumentAtPoll ==
    /\ [](Done("conectar") =>
            /\ AttachBeforeLaunch
            /\ c_ret.ok =>
                  /\ c_acad # 0
                  /\ c_args.esperar_documento => ReportedAtPollAfterPassedTest)
    /\ [][BoundAfterDocumentReported]_vars

\* conectar launched the server, waited, and returned connected=True on a
\* document reported after timeout_seg had elapsed
C18_Witness ==
    /\ Done("conectar")
    /\ c_ret.ok
    /\ c_args.esperar_documento
    /\ CallsOf("Dispatch") # {}
    /\ c_elapsed > 2 * c_args.timeout_seg

(***************************************************************************)
(* Properties of atualizar_propriedade (SpecUpdate).                       *)
(***************************************************************************)
\* the entities, and their properties, that the arguments of the call name
Targets ==
    {i \in DOMAIN drawing :
        /\ drawing[i].EntityName = "AcDbBlockReference"
        /\ drawing[i].Handle = c_args.handle
        /\ FirstProp(drawing[i].props, c_args.nome_propriedade) # 0}
TargetProp(i) == drawing[i].props[FirstProp(drawing[i].props, c_args.nome_propriedade)]

\* the call under way or just ended is atualizar_propriedade
Updating == c_pc = "update" \/ Done("atualizar_propriedade")

\* its value is numeric and lies outside the range of the property it names
OutOfRangeCall ==
    /\ Updating
    /\ c_args.novo_valor.numeric
    /\ \E i \in Targets :
          /\ TargetProp(i).bounded
          /\ \/ c_args.novo_valor.n < TargetProp(i).ValueMinimum
             \/ c_args.novo_valor.n > TargetProp(i).ValueMaximum

\* its value is the minimum or the maximum of the property it names
AtBoundCall ==
    /\ Updating
    /\ c_args.novo_valor.numeric
    /\ \E i \in Targets :
          /\ TargetProp(i).bounded
          /\ c_args.novo_valor.n \in {TargetProp(i).ValueMinimum, TargetProp(i).ValueMaximum}

ValidationFailures ==
    {OutOfLimits(v, prop) : v \in NovoValores, prop \in {Altura, Largura}}

\* C13: atualizar_propriedade with a numeric value outside [min, max] of the
\* property returns a failure and writes nothing: the drawing, and so the
\* value read back and every other property of every entity, is as before;
\* a value equal to the minimum or the maximum is not rejected as out of range
C13_OutOfRangeWritesNothing ==
    /\ [][OutOfRangeCall => drawing' = drawing]_vars
    /\ []((Done("atualizar_propriedade") /\ OutOfRangeCall) => ~c_ret.ok)
    /\ []((Done("atualizar_propriedade") /\ AtBoundCall)
            => c_ret.msg \notin ValidationFailures)

\* a value above the maximum was refused and the property kept its value
C13_Witness ==
    /\ Done("atualizar_propriedade")
    /\ OutOfRangeCall
    /\ c_args.novo_valor = Num(3)
    /\ c_ret = Returned("atualizar_propriedade", FALSE, OutOfLimits(Num(3), Altura))
    /\ \A i \in Targets : TargetProp(i).Value = Num(1)

\* the faults the retry executor takes for transient
TransientCodes == {RPC_E_CALL_REJECTED, RPC_E_SERVERCALL_RETRYLATER}

\* C14: atualizar_propriedade keeps its three kinds of failure apart: a value
\* out of range is a validation failure, an absent handle or property is
\* "not found", and a transient fault of the server while the block is located
\* or written is left to the retry executor and never reported as "not found"
C14_FailureKindsKeptApart ==
    Done("atualizar_propriedade") =>
        /\ c_ret.msg \in ValidationFailures => OutOfRangeCall
        /\ c_ret.msg = NotFound => c_skipped \cap TransientCodes = {}
        /\ (Targets = {} /\ c_ret.msg # NotFound) => ~c_ret.ok

(***************************************************************************)
(* Properties of listar_blocos_suporte (SpecListing).                      *)
(***************************************************************************)
\* the attributes of the entity whose tag is tag_atributo, case ignored, and
\* whose text is not empty
TaggedAttribs(entity, tag_atributo) ==
    {j \in DOMAIN entity.attribs :
        /\ Upper(entity.attribs[j].TagString) = Upper(tag_atributo)
        /\ entity.attribs[j].TextString # ""}

\* the entity is one the listing is to report
IsSupportBlock(entity, a) ==
    /\ entity.EntityName = "AcDbBlockReference"
    /\ StartsWith(entity.Name, a.prefixo_bloco)
    /\ entity.HasAttributes
    /\ TaggedAttribs(entity, a.tag_atributo) # {}

\* the listing was made on a live connection and no call of it faulted
ListedWithoutFault ==
    /\ Done("listar_blocos_suporte")
    /\ c_ret.ok
    /\ c_skipped = {}
    /\ g_error_log = <<>>

\* C20: listar_blocos_suporte(tag_atributo, prefixo_bloco) returns, in the
\* server's index order, exactly one record for each entity that is a block
\* reference, has a name starting with prefixo_bloco, carries attributes and
\* has an attribute whose tag equals tag_atributo ignoring case and whose
\* text is not empty, that text being the record's tag; no other entity
\* yields a record
C20_ListsExactlyTheSupportBlocks ==
    ListedWithoutFault =>
        LET wanted == SelectSeq(drawing, LAMBDA e : IsSupportBlock(e, c_args))
        IN  /\ Len(c_ret.value) = Len(wanted)
            /\ \A k \in DOMAIN wanted :
                  /\ c_ret.value[k].handle = wanted[k].Handle
                  /\ \E j \in TaggedAttribs(wanted[k], c_args.tag_atributo) :
                        c_ret.value[k].tag = wanted[k].attribs[j].TextString

(***************************************************************************)
(* Properties of desconectar (SpecRepository).                             *)
(***************************************************************************)
\* C19: desconectar clears the three handles, so that is_connected is false,
\* and makes no call on the server: the server, its documents and their
\* contents are as before; the repository's desconectar also empties its
\* cache and marks it dirty
C19_DisconnectClearsWithoutCalls ==
    /\ [][(Desconectar \/ RepoDesconectar) =>
            /\ NoSession'
            /\ ~is_connected'
            /\ c_trace' = <<>>
            /\ UNCHANGED serverVars]_vars
    /\ [][RepoDesconectar => (r_cache' = <<>> /\ r_cache_dirty')]_vars

\* the repository held a session and a loaded cache, and its desconectar
\* dropped both
C19_Witness ==
    /\ Done("repository.desconectar")
    /\ c_held
    /\ r_before > 0
    /\ r_cache = <<>>
    /\ r_cache_dirty
    /\ NoSession
    /\ srv_running /\ srv_docs = 1

\* the entity passes the filter of the scan
PassesFilter(entity, a) ==
    /\ entity.EntityName = "AcDbBlockReference"
    /\ StartsWith(entity.Name, a.prefixo_bloco)
    /\ entity.HasAttributes
    /\ TagSuporte(entity.attribs, a.tag_atributo) # ""

\* indices, in order, of the entities other than entity i that pass the filter
PassingBut(i) ==
    SelectSeq([k \in DOMAIN drawing |-> k],
              LAMBDA k : k # i /\ PassesFilter(drawing[k], c_args))

\* the listing returned from a scan in which a call on one entity raised
ListedWithException ==
    /\ Done("listar_blocos_suporte")
    /\ c_ret.ok
    /\ c_skipped # {}

\* C21: when accessing one entity raises during the scan of
\* listar_blocos_suporte, that entity is skipped and counted and the scan goes
\* on: every other entity that passes the filter is returned, in order, so that
\* one faulty entity neither aborts nor empties the result
C21_FaultyEntitySkipped ==
    ListedWithException =>
        \E i \in DOMAIN drawing :
            /\ Len(c_ret.value) = Len(PassingBut(i))
            /\ \A k \in DOMAIN c_ret.value :
                  c_ret.value[k].handle = drawing[PassingBut(i)[k]].Handle

\* of two entities that pass the filter the first raised and the second was
\* returned
C21_Witness ==
    /\ ListedWithException
    /\ Len(drawing) = 2
    /\ \A k \in DOMAIN drawing : PassesFilter(drawing[k], c_args)
    /\ Len(c_ret.value) = 1
    /\ c_ret.value[1].handle = drawing[2].Handle

(***************************************************************************)
(* Properties of obter_propriedades_bloco (SpecProperties).                *)
(***************************************************************************)
\* the dynamic block references of the drawing that have the handle asked for
DynamicOwners ==
    {i \in DOMAIN drawing :
        /\ drawing[i].EntityName = "AcDbBlockReference"
        /\ drawing[i].Handle = c_args.handle
        /\ drawing[i].IsDynamicBlock}

\* the properties of entity i other than "Origin", in order
UserProperties(i) == SelectSeq(drawing[i].props, LAMBDA q : q.PropertyName # "Origin")

\* the properties were read on a live connection and no call faulted
ReadWithoutFault ==
    /\ Done("obter_propriedades_bloco")
    /\ c_ret.ok
    /\ c_skipped = {}
    /\ g_error_log = <<>>

\* C22: obter_propriedades_bloco(handle) returns the dynamic properties of
\* the block reference with that handle, every one but the property named
\* "Origin", and an empty result when no entity has the handle or the entity
\* is not a dynamic block
C22_PropertiesButOrigin ==
    ReadWithoutFault =>
        IF DynamicOwners = {} THEN c_ret.value = <<>>
        ELSE \E i \in DynamicOwners :
                /\ Len(c_ret.value) = Len(UserProperties(i))
                /\ \A j \in DOMAIN c_ret.value :
                      /\ c_ret.value[j].nome = UserProperties(i)[j].PropertyName
                      /\ c_ret.value[j].valor = UserProperties(i)[j].Value

\* the block has an "Origin" property and two others, and the two were
\* returned
C22_Witness ==
    /\ ReadWithoutFault
    /\ \E i \in DynamicOwners : Len(drawing[i].props) = 3
    /\ Len(c_ret.value) = 2

(***************************************************************************)
(* Properties of DXFConversionWorker (SpecConvert).                        *)
(***************************************************************************)
\* the counts of a stats dict add up to its total, with one detail, of a
\* file of its own, for each error counted
Balanced(st) ==
    /\ st.success + st.errors + st.skipped = st.total
    /\ Len(st.error_details) = st.errors
    /\ \A j, k \in DOMAIN st.error_details :
          st.error_details[j][1] = st.error_details[k][1] => j = k

\* at most 3 attempts are made on a file, each but the third followed by a
\* pause of one second when it faulted
AttemptsBounded ==
    \A f \in DOMAIN cv_disk :
        /\ cv_attempts[f] <= 3
        /\ cv_pauses[f] <= 2
        /\ cv_pauses[f] <= cv_attempts[f]
        /\ cv_attempts[f] > 1 => cv_pauses[f] >= cv_attempts[f] - 1

\* C23: DXFConversionWorker makes at most 3 export attempts per input file,
\* retrying the whole attempt after a pause of 1 s on any fault, and every
\* finished it emits after scanning files carries counts with
\* success + errors + skipped = total and one error detail per error
C23_AttemptsBoundedAndCountsAddUp ==
    /\ AttemptsBounded
    /\ \A k \in DOMAIN cv_finished :
          cv_finished[k].total > 0 => Balanced(cv_finished[k])

\* C29: a file is counted as converted only in an attempt whose export wrote
\* the output, with more than the minimum viable size; an output left from
\* before the attempt never makes it count
C29_SuccessOnlyIfExported ==
    [][cv_stats'.success > cv_stats.success =>
          /\ Len(cv_exported'[cv_i]) = Len(cv_exported[cv_i]) + 1
          /\ cv_exported'[cv_i][Len(cv_exported'[cv_i])] > MinViableSize]_vars

\* C30: the pipelines close only documents they opened themselves; a
\* document that was open in the server before is never closed by one, also
\* on a fault path
C30_ClosesOnlyItsOwnDocuments ==
    \A k \in DOMAIN cv_closed : cv_closed[k] = "worker"

(***************************************************************************)
(* Properties of the window's batch edit (SpecBatchEdit).                  *)
(***************************************************************************)
Running == {w \in DOMAIN mw_workers : mw_workers[w].running}

\* C24: while a BatchEditWorker is running a request to start another
\* batch edit is refused, with a warning shown and no worker created or
\* started, so at most one batch-edit worker is running at any time
C24_OneBatchEditAtATime ==
    /\ [](Cardinality(Running) <= 1)
    /\ [][(Running # {} /\ mw_requests' # mw_requests) =>
              /\ mw_warnings' = mw_warnings + 1
              /\ mw_workers' = mw_workers
              /\ mw_batch_worker' = mw_batch_worker]_vars

\* a request was refused while the second worker of the window was running
C24_Witness ==
    /\ Len(mw_workers) = 2
    /\ Running = {2}
    /\ mw_warnings = 1
    /\ mw_requests = 3

(***************************************************************************)
(* The retry decision of the two execute_with_retry (SpecExecutors).       *)
(***************************************************************************)
\* the handler of utils went on to another attempt after its k-th
RetriedByUtils(k) == Len(h_outcomes) > k \/ (h_pc = "attempt" /\ h_attempt > k)

\* the copy of the pipeline invoked the operation again after the k-th time
RetriedByPipeline(k) == s_result.calls > k

\* the shared executor retries a fault that has an attempt left exactly when
\* its code is one of the two
UtilsRetriesTransientCodes ==
    \A k \in DOMAIN h_outcomes :
        (h_outcomes[k].kind = "com_error" /\ k < h_retries) =>
            (RetriedByUtils(k) <=> h_outcomes[k].value \in TransientCodes)

\* C25: every retry-guarded call, those of the batch pipeline included,
\* retries a fault that has an attempt left exactly when its code is
\* RPC_E_CALL_REJECTED or RPC_E_SERVERCALL_RETRYLATER, so the executor of
\* the pipeline and the shared one decide alike for every fault code
C25_BothExecutorsRetryTheSameCodes ==
    /\ UtilsRetriesTransientCodes
    /\ s_calls > 0 =>
          \A k \in 1..s_result.calls :
              (s_outs[k] \in Faults /\ k < s_max_retries) =>
                  (RetriedByPipeline(k) <=> s_outs[k] \in TransientCodes)

(***************************************************************************)
(* Properties of the rows filled by AutocadWorker (Spec).                  *)
(***************************************************************************)
\* C26: a fault raised by the fill step of a row, its retries exhausted, is
\* surfaced as an error: the row is neither counted as no_attributes nor
\* saved with its fields partly filled and counted as a success
C26_FillFaultIsAnError ==
    filled.raised => fate[filled.row] \cap {"no_attributes", "success"} = {}

\* C28: the document saved for a row holds no value written for another
\* row: each mapped attribute holds the row's own value and each unmapped
\* attribute the template's
C28_SavedDocumentHoldsOwnValues ==
    (filled.row # 0 /\ "success" \in fate[filled.row]) =>
        \A k \in DOMAIN filled.attribs :
            filled.attribs[k].text =
                IF Upper(filled.attribs[k].tag) \in AttributeMappingKeys
                THEN filled.row ELSE 0

\* the same for the rows whose fill did not fault
SavedDocumentHoldsOwnValuesUnlessFaulted ==
    (filled.row # 0 /\ ~filled.raised /\ "success" \in fate[filled.row]) =>
        \A k \in DOMAIN filled.attribs :
            filled.attribs[k].text =
                IF Upper(filled.attribs[k].tag) \in AttributeMappingKeys
                THEN filled.row ELSE 0

(***************************************************************************)
(* The order in which AutocadWorker takes the rows (Spec).                 *)
(***************************************************************************)
\* the first row of the table with template key t
FirstRow(t) ==
    CHOOSE i \in DOMAIN df :
        df[i].TipoSuporte = t /\ \A j \in 1..(i - 1) : df[j].TipoSuporte # t

\* the rows of one group are started in their input order
RowsOfAGroupInInputOrder ==
    \A n, m \in DOMAIN current_file :
        (n < m /\ current_file[n].tipo_suporte = current_file[m].tipo_suporte) =>
            current_file[n].row < current_file[m].row

\* C27: the template groups are processed in the order in which their keys
\* first appear in the input table, and the rows of a group in their input
\* order
C27_GroupsInInputOrder ==
    /\ RowsOfAGroupInInputOrder
    /\ \A n, m \in DOMAIN current_file :
          (n < m /\ current_file[n].tipo_suporte # current_file[m].tipo_suporte) =>
              FirstRow(current_file[n].tipo_suporte) < FirstRow(current_file[m].tipo_suporte)

(***************************************************************************)
(* Properties of FiltroBusca.verificar (SpecVerificar).                    *)
(***************************************************************************)
\* the numeric comparison named by key holds between the value a and the
\* filter's values
Compares(key, a, f) ==
    CASE key = "maior" -> a > f.valor.n
      [] key = "menor" -> a < f.valor.n
      [] key = "maior_igual" -> a >= f.valor.n
      [] key = "menor_igual" -> a <= f.valor.n
      [] key = "entre" ->
            /\ Min(f.valor.n, f.valor_secundario.n) <= a
            /\ a <= Max(f.valor.n, f.valor_secundario.n)

NumericKeys == {"maior", "menor", "maior_igual", "menor_igual", "entre"}

\* verificar was called on a numeric field with numeric filter values
NumericCase ==
    /\ fb_result.done
    /\ fb_filtro.campo = "Altura"
    /\ fb_suporte.propriedades["Altura"].numeric
    /\ fb_filtro.valor.numeric
    /\ fb_filtro.valor_secundario.numeric

\* C33: verificar with a numeric operator given by its key, on a field
\* holding a number, returns true exactly when the numeric comparison of the
\* field's value with the filter's value holds
C33_NumericOperatorByKey ==
    \A key \in NumericKeys :
        (NumericCase /\ fb_filtro.operador = key) =>
            (fb_result.value <=>
                Compares(key, fb_suporte.propriedades["Altura"].n, fb_filtro))

\* the same with the operator given by its label
NumericOperatorByLabel ==
    \A key \in NumericKeys :
        (NumericCase /\ fb_filtro.operador = OPERADORES_NUM[key]) =>
            (fb_result.value <=>
                Compares(key, fb_suporte.propriedades["Altura"].n, fb_filtro))

(***************************************************************************)
(* Properties of the output file names (SpecNaming).                       *)
(***************************************************************************)
\* C34: the output file names computed for the rows of one run are pairwise
\* distinct, whatever the POSICAO values
C34_OutputFilenamesDistinct ==
    \A j, k \in DOMAIN nm_names : nm_names[j] = nm_names[k] => j = k

\* the same when no POSICAO ends like a suffix
DistinctUnlessSuffixLike ==
    (\A k \in DOMAIN nm_posicoes : nm_posicoes[k] # "A_2") => C34_OutputFilenamesDistinct

(***************************************************************************)
(* The read-only flag reported by obter_propriedades_bloco                 *)
(* (SpecProperties).                                                       *)
(***************************************************************************)
\* C36: for each property returned by obter_propriedades_bloco the reported
\* read-only flag equals the server's ReadOnly flag of that property
C36_ReadOnlyFlagReported ==
    ReadWithoutFault =>
        \A i \in DynamicOwners :
            \A j \in DOMAIN c_ret.value :
                j \in DOMAIN UserProperties(i) =>
                    c_ret.value[j].readonly = UserProperties(i)[j].ReadOnly

\* what is reported is the negation of the server's flag
ReadOnlyFlagNegated ==
    ReadWithoutFault =>
        \A i \in DynamicOwners :
            \A j \in DOMAIN c_ret.value :
                j \in DOMAIN UserProperties(i) =>
                    c_ret.value[j].readonly = ~UserProperties(i)[j].ReadOnly


\* the connector's scan behind listar_todos failed: the session was invalid
\* or collect_blocks faulted, and listar_blocos_suporte answered []
ScanFailed ==
    /\ r_pc = "idle"
    /\ Done("listar_blocos_suporte")
    /\ ~c_ret.ok

\* C37: listar_todos marks its cache clean only after a scan that actually
\* succeeded: when the connector's scan failed (invalid session or a fault,
\* reported as an empty list) the cache stays dirty, so that the next
\* listar_todos scans again instead of returning the empty cache
C37_CleanOnlyAfterSuccessfulScan ==
    ScanFailed => r_cache_dirty

\* after a scan that succeeded without a fault the cache is clean and holds
\* one record for each block of the answer
CleanAfterSuccessfulScan ==
    (r_pc = "idle" /\ Done("listar_blocos_suporte") /\ c_ret.ok) =>
        (~r_cache_dirty /\ Len(r_cache) = Len(c_ret.value))


\* the updates worker w has recorded are those of its first supports, in
\* list order, and its counters count them
InListOrder(w) ==
    /\ \A k \in DOMAIN w.detalhes : w.detalhes[k].suporte = k
    /\ w.sucesso = Cardinality({k \in DOMAIN w.detalhes : w.detalhes[k].sucesso})
    /\ w.falhas = Cardinality({k \in DOMAIN w.detalhes : ~w.detalhes[k].sucesso})

\* C31: BatchEditWorker.run applies the update to the selected supports in
\* list order; a failed update of one support is recorded as a failure of
\* that support only and the remaining supports are still processed; when
\* finished is emitted, sucesso + falhas is the number of detail entries,
\* which is at most total, and is total when the run was not cancelled
C31_BatchCountsAddUp ==
    \A n \in DOMAIN mw_workers :
        LET w == mw_workers[n]
        IN  /\ InListOrder(w)
            /\ w.emitted = "finished" =>
                  /\ w.sucesso + w.falhas = Len(w.detalhes)
                  /\ Len(w.detalhes) <= w.total
                  /\ ~w.cancelado => Len(w.detalhes) = w.total

\* a run that was not cancelled has finished after the update of its first
\* support failed and the update of its second succeeded
C31_Witness ==
    \E n \in DOMAIN mw_workers :
        /\ mw_workers[n].emitted = "finished"
        /\ ~mw_workers[n].cancelado
        /\ mw_workers[n].detalhes =
              <<[suporte |-> 1, sucesso |-> FALSE], [suporte |-> 2, sucesso |-> TRUE]>>

\* the activities that drive the server through the repository right now
Activities ==
    (IF mw_load_worker.running THEN 1 ELSE 0)
        + Cardinality({n \in DOMAIN mw_workers : mw_workers[n].running})
        + (IF mw_gui \in GuiCalls THEN 1 ELSE 0)

\* C32: at no time do two activities drive the server concurrently through
\* the same repository: a running LoadSuportesWorker, a running
\* BatchEditWorker and a property write or zoom issued from the GUI thread
\* never overlap
C32_OneActivityAtATime == Activities <= 1

\* at most one worker of each kind runs, and the GUI thread makes one call
\* at a time
OneActivityOfEachKind ==
    /\ Cardinality({n \in DOMAIN mw_workers : mw_workers[n].running}) <= 1
    /\ Activities <= 3

\* C39: every run of LoadSuportesWorker emits exactly one terminal signal,
\* finished or error, including when it is cancelled at any of its
\* cancellation checkpoints
C39_OneTerminalSignal ==
    /\ Len(mw_load_worker.emitted) <= 1
    /\ mw_load_worker.pc = "ended" => Len(mw_load_worker.emitted) = 1

\* a run emits at most one terminal signal, and exactly one unless it was
\* cancelled
OneTerminalSignalUnlessCancelled ==
    /\ Len(mw_load_worker.emitted) <= 1
    /\ (mw_load_worker.pc = "ended" /\ ~mw_load_worker.cancelado) =>
            Len(mw_load_worker.emitted) = 1


\* the documents the run has opened and not closed
OpenedByRun == open_docs \ UserDocs

\* C35: provided that the document close calls themselves do not fault,
\* AutocadWorker.run never leaks a document: at any time at most the
\* group's template document and one row document opened by the run are
\* open, none remains open at a group boundary, and none remains open when
\* the run ends with finished or cancelled
C35_NoDocumentLeaks ==
    ~close_faulted =>
        /\ OpenedByRun \subseteq {template_doc, doc}
        /\ pc = "group_head" => OpenedByRun = {}
        /\ (pc = "done" /\ (finished # <<>> \/ cancelled > 0)) => OpenedByRun = {}


\* the run has finished without a close fault after writing two rows, the
\* second from a document of its own, and every document it opened is closed
C35_Witness ==
    /\ pc = "done"
    /\ finished # <<>>
    /\ ~close_faulted
    /\ Len(written) >= 2
    /\ "Close" \in server_calls
    /\ next_handle >= 4
    /\ OpenedByRun = {}


\* the value the cached record suporte holds for the property nome
CachedValue(suporte, nome) ==
    LET props == suporte.propriedades
    IN  IF \E j \in DOMAIN props : props[j][1] = nome
        THEN props[CHOOSE j \in DOMAIN props : props[j][1] = nome][2]
        ELSE Nenhum

\* the repository's atualizar_propriedade has returned what the connector
\* answered
Written == r_pc = "idle" /\ Done("atualizar_propriedade")

=============================================================================
